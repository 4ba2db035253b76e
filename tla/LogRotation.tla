---------------------------- MODULE LogRotation ----------------------------
(***************************************************************************)
(* FileOutPutMode (libSdk/FileLogger/OutPutMode.cpp): the thread that      *)
(* writes lines rotates the log file when it is full, and a thread of its  *)
(* own purges old files when it is notified of a rotation.  It reads the   *)
(* directory entry by entry while the writer renames and creates files.    *)
(*                                                                         *)
(* Files are numbered in the order they are created.  A handle stays with  *)
(* its file, whatever becomes of the name.  The base name may be changed,  *)
(* which the program does between two lines: in the middle of one it would *)
(* race with the thread that writes.  All the names are in one directory,  *)
(* and have an extension or have none, and nothing else is there.          *)
(***************************************************************************)
EXTENDS Integers, FiniteSets, SequencesExt

CONSTANTS
    BaseNames,    \* base names in use, but for their extension
    Configured,   \* the one in the configuration
    Extensions,   \* whether the base names may have an extension
    IndexMod,     \* 10000 in the code
    MaxFileNum,   \* max_files of the configuration
    MaxSize,      \* max_size
    MsgSizes,     \* sizes of messages
    NumFiles,     \* bound: files created in all
    NumRestarts,  \* bound: restarts of the program
    NumChanges    \* bound: changes of the base name

ASSUME LogRotationAssumption ==
    /\ IsFiniteSet(BaseNames) /\ Configured \in BaseNames /\ Extensions \subseteq BOOLEAN
    /\ IndexMod \in Nat \ {0} /\ MaxFileNum \in Nat \ {0}
    /\ MaxSize \in Nat \ {0} /\ MsgSizes \subseteq Nat \ {0}
    /\ NumFiles \in Nat \ {0} /\ NumRestarts \in Nat /\ NumChanges \in Nat

Indices == 0 .. IndexMod - 1
NoIndex == IndexMod
Names == BaseNames \X (Indices \union {NoIndex})   \* a base name, alone or with an index

VARIABLES
    disk,            \* the file that each name stands for, or 0
    size,            \* of each file
    created,         \* how many files were created
    mtime,           \* when each file was written last, or 0
    clock,           \* the time now
    hasExt,          \* the base names have an extension
    m_strBaseName,
    m_frLog,         \* the file the handle is open on, or 0
    m_iCurrentSize,
    m_iCurrentIndex,
    m_iMaxFileNum,
    writer,          \* how far writeData is
    purger,          \* how far the purging thread is
    unread,          \* the links of the directory that its listing has still to read
    entries,         \* the time, or 0, of each link that it has read
    doomed,          \* the links that it will delete
    missed,          \* history: the last notification found nobody waiting
    resumed,         \* history: the index went on from the youngest rotated file
    replaced,        \* history: a rotation has replaced a file
    crossed,         \* history: the directory changed while it was listed
    astray,          \* history: the open file may not stay that of the base name
    restarts,
    nameChanges

vars == <<disk, size, created, mtime, clock, hasExt, m_strBaseName, m_frLog, m_iCurrentSize,
          m_iCurrentIndex, m_iMaxFileNum, writer, purger, unread, entries, doomed, missed, resumed,
          replaced, crossed, astray, restarts, nameChanges>>

files == <<disk, size, created, mtime, clock>>
naming == <<m_strBaseName, astray>>
memory == <<naming, m_frLog, m_iCurrentSize, m_iCurrentIndex, m_iMaxFileNum, writer>>
listing == <<unread, entries, crossed>>
purging == <<purger, doomed, listing>>
history == <<hasExt, missed, resumed, replaced, restarts, nameChanges>>

Idle == [at |-> "idle"]
Writing(place, n) == [at |-> place, msg |-> n]
NoEntries == [link \in {} |-> 0]

TypeOK ==
    /\ disk \in [Names -> 0 .. NumFiles]
    /\ size \in [1 .. NumFiles -> Nat]
    /\ created \in 0 .. NumFiles
    /\ clock \in Nat /\ mtime \in [1 .. NumFiles -> 0 .. clock]
    /\ hasExt \in BOOLEAN
    /\ m_strBaseName \in BaseNames
    /\ m_frLog \in 0 .. created
    /\ m_iCurrentSize \in Nat
    /\ m_iCurrentIndex \in Indices
    /\ m_iMaxFileNum \in {0, MaxFileNum}
    /\ writer \in {Idle} \union [at : {"check", "open", "notify", "append"}, msg : MsgSizes]
    /\ purger \in {"start", "lock", "wait", "woken", "list", "delete", "gone"}
    /\ unread \cup DOMAIN entries \cup doomed \subseteq Names \X (1 .. created)
    /\ \A link \in DOMAIN entries : entries[link] \in 0 .. clock
    /\ crossed \in {"never", "before", "now"}
    /\ {missed, resumed, replaced, astray} \subseteq BOOLEAN
    /\ restarts \in 0 .. NumRestarts /\ nameChanges \in 0 .. NumChanges

Taken(d) == {name \in Names : d[name] # 0}
Present(d) == {d[name] : name \in Taken(d)}
Links(d) == {<<name, d[name]>> : name \in Taken(d)}
Numbered(base, i) == <<base, i>>
Rotated(d, base) == {i \in Indices : d[Numbered(base, i)] # 0}
Base == Numbered(m_strBaseName, NoIndex)

(* The names that the purging thread will delete.                          *)
Doomed == {link[1] : link \in doomed}

(* findMaxFileIndex: what follows the last "_" of a name must be digits to *)
(* count, and the extension, if there is one, is not.  The listing goes by *)
(* the extension, so that it has the files of every base name.             *)
FoundIndices(d, ext) ==
    IF ext THEN {} ELSE UNION {Rotated(d, base) : base \in BaseNames}
FindMaxFileIndex(d, ext) ==
    IF FoundIndices(d, ext) = {} THEN 0 ELSE Max(FoundIndices(d, ext))

(* The index that was read is that of the rotated file written last, if the*)
(* base name has rotated files.                                            *)
Resumes(d, base, i) ==
    Rotated(d, base) # {} =>
        \E b \in BaseNames : \A c \in BaseNames : \A j \in Rotated(d, c) :
            /\ d[Numbered(b, i)] # 0
            /\ mtime[d[Numbered(b, i)]] >= mtime[d[Numbered(c, j)]]

(* The program starts with an empty directory, or with one file left, that *)
(* got the largest index when it was rotated.                              *)
Init ==
    /\ hasExt \in Extensions
    /\ \/ disk = [name \in Names |-> 0] /\ created = 0
       \/ /\ disk = [name \in Names |-> IF name = Numbered(Configured, IndexMod - 1)
                                       THEN 1 ELSE 0]
          /\ created = 1
    /\ clock = created
    /\ mtime = [f \in 1 .. NumFiles |-> IF f <= created THEN f ELSE 0]
    /\ m_strBaseName = Configured
    /\ size = [f \in 1 .. NumFiles |-> IF f <= created THEN MaxSize ELSE 0]
    /\ m_frLog = 0
    /\ m_iCurrentSize = 0
    /\ m_iCurrentIndex = FindMaxFileIndex(disk, hasExt)
    /\ m_iMaxFileNum = 0
    /\ writer = Idle
    /\ purger = "start"
    /\ unread = {} /\ entries = NoEntries /\ doomed = {}
    /\ missed = FALSE
    /\ resumed = Resumes(disk, Configured, m_iCurrentIndex)
    /\ replaced = FALSE
    /\ crossed = "never"
    /\ astray = FALSE
    /\ restarts = 0 /\ nameChanges = 0

-----------------------------------------------------------------------------
(* initLog calls initOutMode, which starts the purging thread, and then    *)
(* setMaxFileNum.  After that lines are written.                           *)
SetMaxFileNum ==
    /\ m_iMaxFileNum = 0
    /\ m_iMaxFileNum' = MaxFileNum
    /\ UNCHANGED <<files, naming, m_frLog, m_iCurrentSize, m_iCurrentIndex,
                   writer, purging, history>>

WriteData(n) ==
    /\ m_iMaxFileNum # 0
    /\ writer = Idle
    /\ writer' = Writing("check", n)
    /\ UNCHANGED <<files, naming, m_frLog, m_iCurrentSize, m_iCurrentIndex,
                   m_iMaxFileNum, purging, history>>

(* The directory loses the links `gone' and gets the links `come': when it *)
(* is being listed, readdir may return these or may not, unless it has read*)
(* them already.                                                           *)
DirectoryChanges(gone, come) ==
    /\ IF purger = "list"
       THEN \E some \in SUBSET ((unread \cap gone) \cup come) : unread' = (unread \ gone) \cup some
       ELSE UNCHANGED unread
    /\ crossed' = IF purger = "list" THEN "now" ELSE crossed

(* The file f is written.                                                  *)
Touch(f) == clock' = clock + 1 /\ mtime' = [mtime EXCEPT ![f] = clock + 1]

(* openCurFile opens the file of the base name and reads its size, or      *)
(* creates it.  Only a file that is younger than all others and on no list *)
(* of the purging thread is sure to stay; what is created under the eyes of*)
(* that thread may be taken for the file that had the name before.         *)
OpenExisting ==
    /\ disk[Base] # 0
    /\ m_frLog' = disk[Base]
    /\ m_iCurrentSize' = size[disk[Base]]
    /\ astray' = (mtime[disk[Base]] # clock \/ Base \in Doomed)
    /\ UNCHANGED <<disk, created, mtime, clock, listing>>

CreateFile ==
    /\ disk[Base] = 0 /\ created < NumFiles
    /\ created' = created + 1
    /\ disk' = [disk EXCEPT ![Base] = created + 1]
    /\ Touch(created + 1)
    /\ DirectoryChanges({}, {<<Base, created + 1>>})
    /\ m_frLog' = created + 1
    /\ m_iCurrentSize' = 0
    /\ astray' = (purger = "list" \/ Base \in Doomed)
    /\ UNCHANGED entries

OpenCurFile ==
    /\ OpenExisting \/ CreateFile
    /\ UNCHANGED <<size, m_strBaseName, m_iCurrentIndex, m_iMaxFileNum, purger, doomed, history>>

OpenFirst ==
    /\ writer.at = "check"
    /\ m_frLog = 0
    /\ OpenCurFile
    /\ UNCHANGED writer

WriteFile ==
    /\ size' = [size EXCEPT ![m_frLog] = @ + writer.msg]
    /\ Touch(m_frLog)
    /\ m_iCurrentSize' = m_iCurrentSize + writer.msg
    /\ writer' = Idle

FullTooLate(n) == m_iCurrentSize > MaxSize   \* mutant: the message is not counted
Full(n) == m_iCurrentSize + n > MaxSize

AppendAtOnce ==
    /\ writer.at = "check"
    /\ m_frLog # 0 /\ ~ Full(writer.msg)
    /\ WriteFile
    /\ UNCHANGED <<disk, created, naming, m_frLog, m_iCurrentIndex, m_iMaxFileNum, purging, history>>

(* changeNextFiles: the file gets the next index.  A file that has this    *)
(* name already is replaced.                                               *)
SameIndex == m_iCurrentIndex   \* mutant: the index is not incremented
NextIndex == (m_iCurrentIndex + 1) % IndexMod

MoveFile ==
    LET next == Numbered(m_strBaseName, NextIndex) IN
    /\ disk[Base] # 0
    /\ disk' = [disk EXCEPT ![next] = disk[Base], ![Base] = 0]
    /\ replaced' = (replaced \/ disk[next] # 0)
    /\ DirectoryChanges({<<Base, disk[Base]>>, <<next, disk[next]>>}, {<<next, disk[Base]>>})

NothingToMove ==
    /\ disk[Base] = 0
    /\ UNCHANGED <<disk, replaced, unread, crossed>>

Rename ==
    /\ writer.at = "check"
    /\ m_frLog # 0 /\ Full(writer.msg)
    /\ m_iCurrentIndex' = NextIndex
    /\ MoveFile \/ NothingToMove
    /\ m_frLog' = 0
    /\ writer' = [writer EXCEPT !.at = "open"]
    /\ UNCHANGED <<size, created, mtime, clock, naming, m_iCurrentSize, m_iMaxFileNum,
                   purger, entries, doomed, hasExt, missed, resumed, restarts, nameChanges>>

OpenNext ==
    /\ writer.at = "open"
    /\ OpenCurFile
    /\ writer' = [writer EXCEPT !.at = "notify"]

(* The purging thread has m_mtxSwitchLock from when it wakes up until it   *)
(* has deleted what it will delete.                                        *)
MutexFree == purger \notin {"list", "delete"}

NotifyNobody == UNCHANGED purger   \* mutant: the call is missing
NotifyPurger == purger' = IF purger = "wait" THEN "woken" ELSE purger

Notify ==
    /\ writer.at = "notify"
    /\ MutexFree
    /\ NotifyPurger
    /\ missed' = (purger \notin {"wait", "woken"})
    /\ writer' = [writer EXCEPT !.at = "append"]
    /\ UNCHANGED <<files, naming, m_frLog, m_iCurrentSize, m_iCurrentIndex,
                   m_iMaxFileNum, doomed, listing, hasExt, resumed, replaced, restarts, nameChanges>>

AppendAfterRotation ==
    /\ writer.at = "append"
    /\ WriteFile
    /\ UNCHANGED <<disk, created, naming, m_frLog, m_iCurrentIndex, m_iMaxFileNum, purging, history>>

(* changeOutModeCfg, by setLogFileName: the index is read again for the new *)
(* base name, but the handle stays with the old file, which only the next  *)
(* rotation closes.                                                        *)
setLogFileName(base) ==
    /\ nameChanges < NumChanges /\ nameChanges' = nameChanges + 1
    /\ m_iMaxFileNum # 0 /\ writer = Idle
    /\ base # m_strBaseName /\ m_strBaseName' = base
    /\ m_iCurrentIndex' = FindMaxFileIndex(disk, hasExt)
    /\ astray' = TRUE
    /\ resumed' = (resumed /\ Resumes(disk, base, m_iCurrentIndex'))
    /\ UNCHANGED <<files, m_frLog, m_iCurrentSize, m_iMaxFileNum, writer, purging,
                   hasExt, missed, replaced, restarts>>

-----------------------------------------------------------------------------
(* purgeOldFiles: the thread ends at once if it reads m_iMaxFileNum before *)
(* it is set.                                                              *)
PurgerStart ==
    /\ purger = "start"
    /\ purger' = IF m_iMaxFileNum <= 0 THEN "gone" ELSE "lock"
    /\ UNCHANGED <<files, memory, doomed, listing, history>>

PurgerWait ==
    /\ purger = "lock"
    /\ purger' = "wait"
    /\ UNCHANGED <<files, memory, doomed, listing, history>>

SpuriousWakeup ==
    /\ purger = "wait"
    /\ purger' = "woken"
    /\ UNCHANGED <<files, memory, doomed, listing, history>>

(* getFilesInCurDir reads the directory entry by entry and asks for the    *)
(* time of each name, which may stand for another file by then, or for none*)
(* any more: then the time of the entry is whatever was in memory.         *)
OpenDir ==
    /\ purger = "woken"
    /\ purger' = "list"
    /\ unread' = Links(disk)
    /\ crossed' = IF crossed = "now" THEN "before" ELSE crossed
    /\ UNCHANGED <<files, memory, entries, doomed, history>>

TimeOf(name) == IF disk[name] = 0 THEN 0 ELSE mtime[disk[name]]

ReadEntry ==
    /\ purger = "list"
    /\ \E link \in unread :
           /\ unread' = unread \ {link}
           /\ entries' = [l \in DOMAIN entries \cup {link} |->
                             IF l = link THEN TimeOf(link[1]) ELSE entries[l]]
    /\ UNCHANGED <<files, memory, purger, doomed, crossed, history>>

(* The surplus: the first entries when they are sorted by time, wherever   *)
(* those without a time get to.  (The current file is among those to keep.)*)
FirstEntries(listed, n) ==
    {first \in SUBSET DOMAIN listed :
        /\ Cardinality(first) = IF n > 0 THEN n ELSE 0
        /\ \A l \in first, k \in DOMAIN listed \ first :
               0 \in {listed[l], listed[k]} \/ listed[l] <= listed[k]}

YoungestFiles(listed) ==   \* mutant: sorted the wrong way round
    {DOMAIN listed \ kept : kept \in FirstEntries(listed, Min({m_iMaxFileNum, Cardinality(DOMAIN listed)}))}
OneTooMany(listed) ==   \* mutant: the limit is taken for one less
    FirstEntries(listed, Cardinality(DOMAIN listed) - (m_iMaxFileNum - 1))
OldestFiles(listed) == FirstEntries(listed, Cardinality(DOMAIN listed) - m_iMaxFileNum)

ListDone ==
    /\ purger = "list"
    /\ unread = {}
    /\ doomed' \in OldestFiles(entries)
    /\ purger' = "delete"
    /\ entries' = NoEntries
    /\ UNCHANGED <<files, memory, unread, crossed, history>>

(* delFile deletes by name, whatever file has the name by now.             *)
DeleteFile ==
    /\ purger = "delete"
    /\ \E link \in doomed :
           /\ disk' = [disk EXCEPT ![link[1]] = 0]
           /\ doomed' = doomed \ {link}
    /\ UNCHANGED <<size, created, mtime, clock, memory, purger, listing, history>>

PurgerDone ==
    /\ purger = "delete"
    /\ doomed = {}
    /\ purger' = "lock"
    /\ UNCHANGED <<files, memory, doomed, listing, history>>

(* The program ends at any point and starts again.                         *)
Restart ==
    /\ restarts < NumRestarts
    /\ restarts' = restarts + 1
    /\ m_frLog' = 0
    /\ m_iCurrentSize' = 0
    /\ m_strBaseName' = Configured
    /\ m_iCurrentIndex' = FindMaxFileIndex(disk, hasExt)
    /\ m_iMaxFileNum' = 0
    /\ writer' = Idle
    /\ purger' = "start"
    /\ unread' = {} /\ entries' = NoEntries /\ doomed' = {}
    /\ missed' = FALSE
    /\ resumed' = (resumed /\ Resumes(disk, Configured, m_iCurrentIndex'))
    /\ astray' = FALSE
    /\ UNCHANGED <<files, hasExt, replaced, crossed, nameChanges>>

WriterStep ==
    OpenFirst \/ AppendAtOnce \/ Rename \/ OpenNext \/ Notify \/ AppendAfterRotation

PurgerStep ==
    PurgerStart \/ PurgerWait \/ OpenDir \/ ReadEntry \/ ListDone \/ DeleteFile \/ PurgerDone

Next ==
    \/ SetMaxFileNum
    \/ \E n \in MsgSizes : WriteData(n)
    \/ WriterStep \/ PurgerStep
    \/ SpuriousWakeup \/ Restart
    \/ \E base \in BaseNames : setLogFileName(base)

Spec == Init /\ [][Next]_vars

(* Both threads keep running; nobody has to write a line.                  *)
FairSpec == Spec /\ WF_vars(WriterStep) /\ WF_vars(PurgerStep)

-----------------------------------------------------------------------------
(* "The largest number of log files kept" (max_files): a file only goes    *)
(* when the directory has more than that.                                  *)
Goes == ~ (Present(disk) \subseteq Present(disk'))

OnlySurplusGoes == [][Goes => Cardinality(Taken(disk)) > MaxFileNum]_vars

(* It holds as long as no rotation has replaced a file: neither the one   *)
(* that the index is given again for, nor, by a name on the list of the    *)
(* purging thread, one that the thread takes for the old.  A rotation while*)
(* the directory is listed can make the thread count one file twice: then  *)
(* it leaves one too few, and never less, however often that happens.      *)
OnlySurplusGoesUnlessReplaced ==
    [][Goes /\ ~ replaced' =>
          \/ Cardinality(Taken(disk)) > MaxFileNum
          \/ crossed = "now" /\ Cardinality(Taken(disk)) = MaxFileNum]_vars

(* The purging thread deletes no file that is younger than one it leaves,  *)
(* whatever the writer does between the listing and the deletion, unless a *)
(* rotation fell into the listing itself or, by a change of the base name, *)
(* an older file is written again.                                         *)
Straight == nameChanges = 0 \/ (restarts = 0 /\ nameChanges <= 1)

OldestGoFirst ==
    [][~ replaced' /\ crossed # "now" /\ Straight =>
          \A f \in Present(disk) \ Present(disk'), name \in Taken(disk') \ Doomed' :
              mtime[f] <= mtime[disk'[name]]]_vars

(* The file that lines go to is the one with the base name: always while   *)
(* the name stays the same and no rotation fell into a listing, and from   *)
(* the next rotation when one did, or when the name changed.               *)
(* (A file of an older name that a later start of the program opens again  *)
(* may be purged before it is written, or the next file in its place.)     *)
WritesReachBase ==
    /\ m_frLog # 0 /\ ~ astray => disk[Base] = m_frLog
    /\ nameChanges = 0 /\ crossed = "never" => ~ astray

(* No file outgrows max_size, unless it holds a single line.               *)
SizeKept ==
    \A f \in 1 .. created : size[f] <= MaxSize \/ size[f] \in MsgSizes

(* No rotation replaces a file before all the indices are used, as long as *)
(* the index goes on from the youngest rotated file whenever the program   *)
(* starts, and the base name stays the same.                               *)
IndexSound == resumed /\ nameChanges = 0 /\ replaced => created > IndexMod

(* The files are what the writer takes them for.                           *)
FilesSound == WritesReachBase /\ SizeKept /\ IndexSound

(* The surplus is purged in the end, unless the last notification came     *)
(* while the purging thread was busy, or the thread had ended, or the next *)
(* rotation, which will notify it again, moved a file past the listing.    *)
LimitKept ==
    (writer.at = "append" /\ ~ missed) ~>
        \/ Cardinality(Taken(disk)) <= MaxFileNum
        \/ missed \/ purger = "start"
        \/ crossed = "now" /\ writer.at \in {"open", "notify"}
==============================================================================
