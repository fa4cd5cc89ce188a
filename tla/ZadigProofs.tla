----------------------------- MODULE ZadigProofs -----------------------------
(* What holds of Zadig and of its check for updates for any devices, driver types and *)
(* bounds: the types; that a file which is offered to be launched is complete; that   *)
(* the modes of the window, what it shows and what it installs agree; that no record  *)
(* of a list that was freed is used; that a request for a check has a thread that is  *)
(* going to answer it; and that a change of the devices is on its way to the list.    *)
EXTENDS ZadigUpdate, FiniteSetTheorems, SequenceTheorems, TLAPS

--------------------------------------------------------------------------------
(* The download.                                                                *)

\* A thread that has the file open is between its creation and its closing; what was read
\* to the end is in the file until it is closed.
FileHeld ==
  /\ file.by # 0 => loader[file.by] \in {"read", "exit", "close"}
  /\ \A d \in Loader :
       /\ loader[d] = "read" => file.by = d
       /\ ok[d] => loader[d] \in {"exit", "close", "gone"}
       /\ ok[d] /\ loader[d] \in {"exit", "close"} => file.by = d /\ file.content = "complete"

\* While no download was started during another one: one thread runs at most, the dialog
\* offers nothing to launch before it has told so, and what it offers stays complete.
OneLoads ==
  "overlap" \notin mishap =>
    /\ \A d, b \in Loading : d = b
    /\ \A d \in Loading : status = 2 => ok[d] /\ loader[d] = "close"
    /\ status = 2 => file.content = "complete"

\* While no dialog was closed during a download: only names of threads that are gone are
\* freed, and an incomplete file has a thread that is going to delete or complete it.
NamesKept ==
  "abandoned" \notin mishap =>
    /\ path # 0 => path \notin freed /\ loader[path] # "none"
    /\ \A d \in freed : loader[d] = "gone"
    /\ \A d \in Loading : loader[d] # "start" => name[d] \notin freed
    /\ file.content = "partial" => file.by # 0 \/ \E d \in Loader : loader[d] = "unlink"

\* The inductive invariant of the downloads.
LoadInv == UpdateTypeOK /\ FileHeld /\ OneLoads /\ NamesKept

\* The types, apart: what is Boolean from the rest.
Places == {"none", "start", "wait", "query", "hold", "dialog", "answer", "clear", "end"}
LoadPlaces == {"none", "start", "connect", "read", "exit", "close", "unlink", "gone"}
Flags ==
  /\ force \in BOOLEAN /\ checking \in BOOLEAN /\ asked \in BOOLEAN
  /\ error \in BOOLEAN /\ launching \in BOOLEAN
Downloads ==
  /\ checker \in [Checker -> Places] /\ loader \in [Loader -> LoadPlaces]
  /\ dialogs \subseteq Checker /\ status \in 0..2 /\ path \in 0..2 /\ freed \subseteq 1..2
  /\ ok \in [Loader -> BOOLEAN] /\ name \in [Loader -> 0..2]
  /\ file \in [content : {"none", "partial", "complete"}, by : 0..2]
  /\ mishap \subseteq {"double", "late", "refused", "reset", "overlap", "abandoned"}

\* What the steps of the user interface and of a check that shows no dialog leave alone.
Undisturbed == UNCHANGED <<status, path, freed, loader, ok, name, file>> /\ mishap \subseteq mishap'

\* LoadInv holds at first.
LEMMA LoadsInit == Init => LoadInv
<1>. SUFFICES ASSUME Init PROVE LoadInv
  OBVIOUS
<1>1. UpdateTypeOK
  <2>1. checker \in [Checker -> {"start", "none", "query", "hold", "answer"}]
    BY DEF Init, First
  <2>2. Flags
    BY DEF Init, Flags
  <2>3. Downloads
    BY <2>1 DEF Init, Downloads, Places, LoadPlaces
  <2>. QED
    BY <2>2, <2>3 DEF UpdateTypeOK, Flags, Downloads, Places, LoadPlaces
<1>2. FileHeld /\ OneLoads /\ NamesKept
  BY DEF Init, FileHeld, OneLoads, NamesKept, Loading, Loader
<1>. QED
  BY <1>1, <1>2 DEF LoadInv

\* A step that leaves the downloads alone, but for what may have gone wrong, keeps what is
\* known of them.
LEMMA LoadsUndisturbed ==
  ASSUME FileHeld, OneLoads, NamesKept, Undisturbed
  PROVE  FileHeld' /\ OneLoads' /\ NamesKept'
  BY DEF FileHeld, OneLoads, NamesKept, Undisturbed, Loading

\* The types of what the check and the download keep, step by step.
LEMMA UpdateTyped ==
  ASSUME UpdateTypeOK, [Next]_vars
  PROVE  UpdateTypeOK'
<1>. SUFFICES ASSUME Flags, Downloads PROVE Flags' /\ Downloads'
  BY DEF UpdateTypeOK, Flags, Downloads, Places, LoadPlaces
<1>. USE DEF Places, LoadPlaces
<1>1. CASE UNCHANGED updateVars
  BY <1>1 DEF updateVars, checkVars, loadVars, Flags, Downloads
<1>2. \A c \in Checker : \A place \in Places :
        Goto(c, place) => checker' \in [Checker -> Places]
  BY DEF Downloads, Goto
<1>3. \A d \in Loader : \A place \in LoadPlaces :
        Go(d, place) => loader' \in [Loader -> LoadPlaces]
  BY DEF Downloads, Go
<1>4. CASE CheckNow
  <2>1. checker' \in [Checker -> Places]
    BY <1>2, <1>4 DEF CheckNow, Downloads
  <2>2. mishap' \subseteq {"double", "late", "refused", "reset", "overlap", "abandoned"}
    BY <1>4 DEF CheckNow, Downloads
  <2>3. force' = TRUE /\ checking' = checking /\ asked' \in BOOLEAN
    BY <1>4 DEF CheckNow
  <2>4. Flags'
    BY <1>4, <2>3 DEF CheckNow, loadVars, Flags
  <2>5. Downloads'
    BY <1>4, <2>1, <2>2 DEF CheckNow, loadVars, Downloads
  <2>. QED
    BY <2>4, <2>5
<1>5. ASSUME NEW c \in Checker, Checking(c) PROVE Flags' /\ Downloads'
  <2>1. checker' \in [Checker -> Places]
    BY <1>2, <1>5 DEF Checking, CheckStarts, Waited, Queried, Shown, Answered, CheckClears,
       CheckEnds
  <2>2. /\ UNCHANGED <<path, freed, error, launching, loader, ok, name, file, mishap>>
        /\ force' \in {force, FALSE} /\ checking' \in {checking, TRUE, FALSE}
        /\ asked' \in {asked, FALSE, asked /\ ~force}
        /\ status' \in {status, 0} /\ dialogs' \in {dialogs, dialogs \cup {c}}
    BY <1>5 DEF Checking, CheckStarts, Waited, Queried, Shown, Answered, CheckClears, CheckEnds,
       loadVars
  <2>3. Flags'
    BY <2>2 DEF Flags
  <2>4. Downloads'
    BY <2>1, <2>2 DEF Downloads
  <2>. QED
    BY <2>3, <2>4
<1>6. CASE DownloadClicked \/ AbortClicked \/ LaunchClicked
  <2>1. loader' \in [Loader -> LoadPlaces] /\ path' \in 0..2
    BY <1>6 DEF DownloadClicked, AbortClicked, LaunchClicked, Downloads, Loader
  <2>2. /\ UNCHANGED <<checkVars, dialogs, freed, ok, name, file>>
        /\ status' \in {status, 0} /\ error' \in {error, TRUE} /\ launching' \in {launching, TRUE}
        /\ mishap' \in {mishap, mishap \cup {"overlap"}}
    BY <1>6 DEF DownloadClicked, AbortClicked, LaunchClicked
  <2>3. Flags'
    BY <2>2 DEF Flags, checkVars
  <2>4. Downloads'
    BY <2>1, <2>2 DEF Downloads, checkVars
  <2>. QED
    BY <2>3, <2>4
<1>7. ASSUME NEW c \in Checker, DialogClosed(c) \/ Launched(c) PROVE Flags' /\ Downloads'
  <2>1. /\ UNCHANGED <<force, checking, asked, status, error, loader, ok, name, file>>
        /\ launching' \in {launching, FALSE}
        /\ EndDialog(c) \/ UNCHANGED <<checker, dialogs, path, freed, mishap>>
    BY <1>7 DEF DialogClosed, Launched
  <2>2. ASSUME EndDialog(c) PROVE Downloads'
    <3>1. checker' \in [Checker -> Places]
      BY <1>2, <2>2 DEF EndDialog
    <3>2. /\ dialogs' \subseteq Checker /\ path' = 0 /\ freed' \subseteq 1..2
          /\ mishap' \subseteq {"double", "late", "refused", "reset", "overlap", "abandoned"}
      BY <2>2 DEF EndDialog, Downloads
    <3>. QED
      BY <2>1, <3>1, <3>2 DEF Downloads
  <2>3. Flags'
    BY <2>1 DEF Flags
  <2>4. Downloads'
    BY <2>1, <2>2 DEF Downloads
  <2>. QED
    BY <2>3, <2>4
<1>8. ASSUME NEW d \in Loader, Downloading(d) PROVE Flags' /\ Downloads'
  <2>1. loader' \in [Loader -> LoadPlaces]
    BY <1>3, <1>8 DEF Downloading, LoadStarts, LoadCreates, LoadReads, LoadTells, LoadCloses,
       LoadUnlinks
  <2>2. /\ UNCHANGED <<checkVars, dialogs, path, freed, launching, mishap>>
        /\ error' \in {error, TRUE, FALSE} /\ status' \in {status, 0, 1, 2}
        /\ ok' \in {ok, [ok EXCEPT ![d] = TRUE]}
        /\ name' \in {name, [name EXCEPT ![d] = IF path = 0 THEN d ELSE path]}
        /\ file' \in {file, [content |-> "partial", by |-> d], [file EXCEPT !.by = 0],
                      [file EXCEPT !.content = "complete"], [file EXCEPT !.content = "none"]}
    BY <1>8 DEF Downloading, LoadStarts, LoadCreates, LoadReads, LoadTells, LoadCloses,
       LoadUnlinks
  <2>3. ok' \in [Loader -> BOOLEAN]
    BY <2>2 DEF Downloads
  <2>4. name' \in [Loader -> 0..2]
    BY <2>2 DEF Downloads, Loader
  <2>5. file' \in [content : {"none", "partial", "complete"}, by : 0..2]
    BY <2>2 DEF Downloads, Loader
  <2>6. Flags'
    BY <2>2 DEF Flags, checkVars
  <2>7. Downloads'
    BY <2>1, <2>2, <2>3, <2>4, <2>5 DEF Downloads, checkVars
  <2>. QED
    BY <2>6, <2>7
<1>9. CASE SettingsOpened \/ SettingsClosed \/ UNCHANGED vars
  BY <1>9, <1>1 DEF SettingsOpened, SettingsClosed, vars
<1>. QED
  BY <1>1, <1>4, <1>5, <1>6, <1>7, <1>8, <1>9 DEF Next

\* What is known of the downloads survives the steps of the user interface and of a check.
LEMMA LoadsBesides ==
  ASSUME UpdateTypeOK, FileHeld, OneLoads, NamesKept,
         \/ UNCHANGED updateVars \/ CheckNow \/ SettingsOpened \/ SettingsClosed
         \/ LaunchClicked \/ \E c \in Checker : Checking(c) /\ ~Shown(c)
  PROVE  FileHeld' /\ OneLoads' /\ NamesKept'
<1>1. Undisturbed
  BY DEF Undisturbed, updateVars, loadVars, checkVars, CheckNow, SettingsOpened, SettingsClosed,
     LaunchClicked, Checking, CheckStarts, Waited, Queried, Answered, CheckClears, CheckEnds
<1>. QED
  BY <1>1, LoadsUndisturbed

\* What is known of the downloads survives what the user does to them.
LEMMA LoadsByUser ==
  ASSUME UpdateTypeOK, FileHeld, OneLoads, NamesKept,
         \/ DownloadClicked \/ AbortClicked
         \/ \E c \in Checker : Shown(c) \/ DialogClosed(c) \/ Launched(c)
  PROVE  FileHeld' /\ OneLoads' /\ NamesKept'
<1>1. CASE AbortClicked \/ \E c \in Checker : Shown(c)
  BY <1>1 DEF AbortClicked, Shown, FileHeld, OneLoads, NamesKept, Loading
<1>2. ASSUME NEW c \in Checker, DialogClosed(c) \/ Launched(c)
      PROVE  FileHeld' /\ OneLoads' /\ NamesKept'
  <2>1. UNCHANGED <<status, loader, ok, name, file>>
    BY <1>2 DEF DialogClosed, Launched
  <2>2. EndDialog(c) \/ UNCHANGED <<path, freed, mishap>>
    BY <1>2 DEF DialogClosed, Launched
  <2>3. CASE EndDialog(c)
    BY <2>1, <2>3 DEF EndDialog, FileHeld, OneLoads, NamesKept, Loading, UpdateTypeOK, Loader
  <2>. QED
    BY <2>1, <2>2, <2>3 DEF FileHeld, OneLoads, NamesKept, Loading
<1>3. CASE DownloadClicked
  <2>1. PICK d \in Loader : /\ loader[d] = "none" /\ path' = d
                            /\ loader' = [loader EXCEPT ![d] = "start"]
    BY <1>3 DEF DownloadClicked
  <2>2. /\ UNCHANGED <<freed, ok, name, file, status>> /\ status = 0
        /\ mishap' = IF Loading # {} THEN mishap \cup {"overlap"} ELSE mishap
    BY <1>3 DEF DownloadClicked
  <2>3. loader'[d] = "start" /\ \A b \in Loader : b # d => loader'[b] = loader[b]
    BY <2>1 DEF UpdateTypeOK
  <2>4. Loading' = Loading \cup {d}
    BY <2>1, <2>3 DEF Loading
  <2>5. FileHeld'
    BY <2>1, <2>2, <2>3 DEF FileHeld, UpdateTypeOK, Loader
  <2>6. OneLoads'
    BY <2>2, <2>4 DEF OneLoads
  <2>7. NamesKept'
    BY <2>1, <2>2, <2>3, <2>4 DEF NamesKept, UpdateTypeOK, Loading, Loader
  <2>. QED
    BY <2>5, <2>6, <2>7
<1>. QED
  BY <1>1, <1>2, <1>3

\* What is known of the downloads survives the steps of their threads.
LEMMA LoadsByThread ==
  ASSUME UpdateTypeOK, FileHeld, OneLoads, NamesKept, NEW d \in Loader, Downloading(d)
  PROVE  FileHeld' /\ OneLoads' /\ NamesKept'
<1>0. /\ file.by \in Loader \cup {0} /\ 0 \notin Loader /\ freed \subseteq Loader
      /\ path \in Loader \cup {0} /\ Loading \subseteq Loader /\ FileHeld /\ OneLoads /\ NamesKept
  BY DEF UpdateTypeOK, Loader, Loading
<1>1. /\ UNCHANGED <<dialogs, path, freed, mishap>>
      /\ \A b \in Loader : b # d => loader'[b] = loader[b] /\ ok'[b] = ok[b] /\ name'[b] = name[b]
  BY DEF Downloading, LoadStarts, LoadCreates, LoadReads, LoadTells, LoadCloses, LoadUnlinks, Go,
     UpdateTypeOK, checkVars
<1>2. loader[d] \in {"start", "connect", "read", "exit", "close", "unlink"} /\ d \in Loading
  BY DEF Downloading, LoadStarts, LoadCreates, LoadReads, LoadTells, LoadCloses, LoadUnlinks,
     Loading
<1>3. Loading' = Loading \/ (loader'[d] = "gone" /\ Loading' = Loading \ {d})
  BY <1>1, <1>2 DEF Downloading, LoadStarts, LoadCreates, LoadReads, LoadTells, LoadCloses,
     LoadUnlinks, Go, UpdateTypeOK, Loading
<1>4. CASE LoadStarts(d)
  <2>1. /\ loader'[d] = "connect" /\ loader[d] = "start" /\ UNCHANGED <<file, ok>>
        /\ name'[d] = IF path = 0 THEN d ELSE path
        /\ status' \in {status, 1}
    BY <1>4 DEF LoadStarts, Go, UpdateTypeOK
  <2>2. FileHeld'
    BY <1>0, <1>1, <2>1 DEF FileHeld
  <2>3. OneLoads'
    BY <1>0, <1>1, <1>2, <1>3, <2>1 DEF FileHeld, OneLoads
  <2>4. NamesKept'
    BY <1>0, <1>1, <1>2, <1>3, <2>1 DEF FileHeld, NamesKept, Loading
  <2>. QED
    BY <2>2, <2>3, <2>4
<1>5. CASE LoadCreates(d)
  <2>1. /\ loader[d] = "connect" /\ UNCHANGED <<ok, name, status>>
        /\ \/ /\ file.by = 0 /\ loader'[d] = "read"
              /\ file'.content = "partial" /\ file'.by = d
           \/ loader'[d] = "exit" /\ file' = file
    BY <1>5 DEF LoadCreates, Go, UpdateTypeOK
  <2>2. FileHeld'
    BY <1>0, <1>1, <2>1 DEF FileHeld
  <2>3. OneLoads'
    BY <1>0, <1>1, <1>2, <1>3, <2>1 DEF FileHeld, OneLoads
  <2>4. NamesKept'
    BY <1>0, <1>1, <1>2, <1>3, <2>1 DEF FileHeld, NamesKept, Loading
  <2>. QED
    BY <2>2, <2>3, <2>4
<1>6. CASE LoadReads(d)
  <2>1. /\ loader[d] = "read" /\ loader'[d] = "exit" /\ UNCHANGED <<name, status>>
        /\ \/ ok' = ok /\ file' = file
           \/ ok'[d] = TRUE /\ file'.content = "complete" /\ file'.by = file.by
    BY <1>6 DEF LoadReads, Go, UpdateTypeOK
  <2>2. FileHeld'
    BY <1>0, <1>1, <2>1 DEF FileHeld
  <2>3. OneLoads'
    BY <1>0, <1>1, <1>2, <1>3, <2>1 DEF FileHeld, OneLoads
  <2>4. NamesKept'
    BY <1>0, <1>1, <1>2, <1>3, <2>1 DEF FileHeld, NamesKept, Loading
  <2>. QED
    BY <2>2, <2>3, <2>4
<1>7. CASE LoadTells(d)
  <2>1. /\ loader[d] = "exit" /\ loader'[d] = "close" /\ UNCHANGED <<ok, name, file>>
        /\ status' \in {status, 0} \/ (ok[d] /\ status' = 2)
    BY <1>7 DEF LoadTells, Go, UpdateTypeOK
  <2>2. FileHeld'
    BY <1>0, <1>1, <2>1 DEF FileHeld
  <2>3. OneLoads'
    BY <1>0, <1>1, <1>2, <1>3, <2>1 DEF FileHeld, OneLoads
  <2>4. NamesKept'
    BY <1>0, <1>1, <1>2, <1>3, <2>1 DEF FileHeld, NamesKept, Loading
  <2>. QED
    BY <2>2, <2>3, <2>4
<1>8. CASE LoadCloses(d)
  <2>1. /\ loader[d] = "close" /\ loader'[d] = IF ok[d] THEN "gone" ELSE "unlink"
        /\ UNCHANGED <<ok, name, status>> /\ file'.content = file.content
        /\ file'.by = IF file.by = d THEN 0 ELSE file.by
    BY <1>8 DEF LoadCloses, Go, UpdateTypeOK
  <2>2. FileHeld'
    BY <1>0, <1>1, <2>1 DEF FileHeld
  <2>3. OneLoads'
    <3>1. "overlap" \notin mishap /\ status = 2 => Loading' = {} /\ file.content = "complete"
      BY <1>0, <1>1, <1>2, <1>3, <2>1 DEF OneLoads, Loading
    <3>2. status' = status /\ mishap' = mishap /\ Loading' \subseteq Loading
      BY <1>1, <1>3, <2>1
    <3>. QED
      BY <1>0, <2>1, <3>1, <3>2 DEF OneLoads
  <2>4. NamesKept'
    BY <1>0, <1>1, <1>2, <1>3, <2>1 DEF FileHeld, NamesKept, Loading
  <2>. QED
    BY <2>2, <2>3, <2>4
<1>9. CASE LoadUnlinks(d)
  <2>1. /\ loader[d] = "unlink" /\ loader'[d] = "gone" /\ UNCHANGED <<ok, name, status>>
        /\ \/ file.by = 0 /\ file'.content = "none" /\ file'.by = 0
           \/ file.by # 0 /\ file' = file
           \/ name[d] \in freed /\ file' = file
    BY <1>9 DEF LoadUnlinks, Go, UpdateTypeOK
  <2>2. FileHeld'
    BY <1>0, <1>1, <2>1 DEF FileHeld
  <2>3. OneLoads'
    <3>1. "overlap" \notin mishap => status # 2
      BY <1>0, <1>2, <2>1 DEF OneLoads
    <3>2. status' = status /\ mishap' = mishap /\ Loading' \subseteq Loading
      BY <1>1, <1>3, <2>1
    <3>. QED
      BY <1>0, <3>1, <3>2 DEF OneLoads
  <2>4. NamesKept'
    BY <1>0, <1>1, <1>2, <1>3, <2>1 DEF FileHeld, NamesKept, Loading
  <2>. QED
    BY <2>2, <2>3, <2>4
<1>. QED
  BY <1>4, <1>5, <1>6, <1>7, <1>8, <1>9 DEF Downloading

\* Every step keeps what is known of the downloads.
LEMMA LoadsStep ==
  ASSUME LoadInv, [Next]_vars
  PROVE  LoadInv'
<1>1. UpdateTypeOK /\ FileHeld /\ OneLoads /\ NamesKept
  BY DEF LoadInv
<1>2. UpdateTypeOK'
  BY <1>1, UpdateTyped
<1>3. FileHeld' /\ OneLoads' /\ NamesKept'
  <2>1. UNCHANGED vars => UNCHANGED updateVars
    BY DEF vars
  <2>. QED
    BY <1>1, <2>1, LoadsBesides, LoadsByUser, LoadsByThread DEF Next, Checking
<1>. QED
  BY <1>2, <1>3 DEF LoadInv

\* ZadigUpdate.LaunchesComplete: a program that the dialog offers to launch is complete, and
\* an incomplete one is not left behind, whatever aborts and failures there are.
THEOREM LaunchIsComplete == Spec => []LaunchesComplete
<1>1. Init => LoadInv
  BY LoadsInit
<1>2. LoadInv /\ [Next]_vars => LoadInv'
  BY LoadsStep
<1>3. LoadInv => LaunchesComplete
  <2>. SUFFICES ASSUME LoadInv PROVE LaunchesComplete
    OBVIOUS
  <2>1. FileHeld /\ OneLoads /\ NamesKept /\ UpdateTypeOK
    BY DEF LoadInv
  <2>2. file.by # 0 => file.by \in Loading
    BY <2>1 DEF FileHeld, UpdateTypeOK, Loading, Loader
  <2>. QED
    BY <2>1, <2>2 DEF OneLoads, NamesKept, LaunchesComplete, Loading
<1>. QED
  BY <1>1, <1>2, <1>3, PTL DEF Spec

--------------------------------------------------------------------------------
(* The check for updates.                                                       *)

\* Unless a second thread was started before the first had set its flag, at most one runs,
\* and the flag says so from the moment it has set it.
OneCheck ==
  "double" \notin mishap =>
    /\ \A b, c \in Checker : checker[b] # "none" /\ checker[c] # "none" => b = c
    /\ checking <=> \E c \in Checker : checker[c] \notin {"none", "start"}

\* The inductive invariant of the check.
CheckInv == UpdateTypeOK /\ OneCheck /\ RequestHeard

\* Where a thread that has yet to look at the flag is.
Hearing == {"start", "wait", "query", "hold", "answer"}

\* What has gone wrong is remembered.
LEMMA MishapStays == [Next]_vars => mishap \subseteq mishap'
  BY DEF Next, SettingsOpened, SettingsClosed, CheckNow, DownloadClicked, AbortClicked,
     LaunchClicked, Checking, CheckStarts, Waited, Queried, Shown, Answered, CheckClears,
     CheckEnds, DialogClosed, Launched, EndDialog, Downloading, LoadStarts, LoadCreates,
     LoadReads, LoadTells, LoadCloses, LoadUnlinks, updateVars, vars

\* A step that leaves the check alone.
LEMMA CheckUndisturbed ==
  ASSUME OneCheck, RequestHeard, UNCHANGED checkVars, mishap \subseteq mishap'
  PROVE  OneCheck' /\ RequestHeard'
  BY DEF OneCheck, RequestHeard, checkVars

\* A request of the user is left to the thread that runs, or makes one.
LEMMA CheckByUser ==
  ASSUME UpdateTypeOK, OneCheck, RequestHeard, CheckNow
  PROVE  OneCheck' /\ RequestHeard'
<1>1. force' /\ UNCHANGED checking /\ mishap \subseteq mishap'
  BY DEF CheckNow
<1>2. CASE checking
  <2>1. UNCHANGED checker /\ (asked' => \A c \in Checker : checker[c] # "dialog")
    BY <1>2 DEF CheckNow, At
  <2>2. "late" \notin mishap' => \A c \in Checker : checker[c] \notin {"clear", "end"}
    BY <1>2 DEF CheckNow, At
  <2>3. OneCheck'
    BY <1>1, <2>1 DEF OneCheck
  <2>4. ASSUME asked', mishap' \cap {"late", "double", "refused", "reset"} = {}
        PROVE  \E c \in Checker : checker'[c] \in Hearing
    <3>1. PICK c \in Checker : checker[c] \notin {"none", "start"}
      BY <1>1, <1>2, <2>4 DEF OneCheck
    <3>2. checker[c] \notin {"dialog", "clear", "end"}
      BY <2>1, <2>2, <2>4
    <3>. QED
      BY <2>1, <3>1, <3>2 DEF UpdateTypeOK, Hearing
  <2>. QED
    BY <1>1, <2>3, <2>4 DEF RequestHeard, Hearing
<1>3. ASSUME ~checking, NEW c \in Checker, checker[c] = "none", Goto(c, "start"),
             mishap' = mishap \cup IF \E b \in Checker : ~At(b, "none") THEN {"double"} ELSE {}
      PROVE  OneCheck' /\ RequestHeard'
  <2>1. checker'[c] = "start" /\ \A b \in Checker : b # c => checker'[b] = checker[b]
    BY <1>3 DEF Goto, UpdateTypeOK
  <2>2. "double" \notin mishap' => \A b \in Checker : checker[b] = "none"
    BY <1>3 DEF At
  <2>3. OneCheck'
    BY <1>1, <1>3, <2>1, <2>2 DEF OneCheck
  <2>. QED
    BY <1>1, <2>1, <2>3 DEF RequestHeard
<1>4. CASE UNCHANGED checker /\ mishap' = mishap \cup {"refused"}
  BY <1>1, <1>4 DEF OneCheck, RequestHeard
<1>5. CASE ~checking
  BY <1>3, <1>4, <1>5 DEF CheckNow, At
<1>. QED
  BY <1>2, <1>5

\* A thread goes on, or the user closes its dialog.
LEMMA CheckByThread ==
  ASSUME UpdateTypeOK, OneCheck, RequestHeard, NEW c \in Checker,
         Checking(c) \/ DialogClosed(c) \/ Launched(c), mishap \subseteq mishap'
  PROVE  OneCheck' /\ RequestHeard'
<1>1. CASE UNCHANGED checkVars
  BY <1>1, CheckUndisturbed
<1>2. ASSUME NEW place \in Places, NEW next \in Places, place # "none",
             checker[c] = place, Goto(c, next),
             \/ UNCHANGED checking /\ place # "start" /\ next \notin {"none", "start"}
             \/ checking' = TRUE /\ place = "start" /\ next \notin {"none", "start"}
             \/ checking' = FALSE /\ next = "none"
      PROVE  OneCheck'
  <2>1. checker'[c] = next /\ \A b \in Checker : b # c => checker'[b] = checker[b]
    BY <1>2 DEF Goto, UpdateTypeOK
  <2>2. "double" \notin mishap' => \A b \in Checker : b # c => checker[b] = "none"
    BY <1>2 DEF OneCheck
  <2>. QED
    BY <1>2, <2>1, <2>2 DEF OneCheck
<1>3. ASSUME NEW place \in Places, NEW next \in Places, place # "none",
             checker[c] = place, Goto(c, next),
             \/ asked' = FALSE
             \/ UNCHANGED <<asked, force>> /\ (next \in Hearing \/ place \notin Hearing)
             \/ UNCHANGED asked /\ place = "clear"
      PROVE  RequestHeard'
  <2>1. checker'[c] = next /\ \A b \in Checker : b # c => checker'[b] = checker[b]
    BY <1>3 DEF Goto, UpdateTypeOK
  <2>2. CASE mishap \cap {"late", "double", "refused", "reset"} # {} \/ asked' = FALSE
    BY <2>2 DEF RequestHeard
  <2>3. CASE mishap \cap {"late", "double", "refused", "reset"} = {} /\ asked
    <3>1. PICK b \in Checker : checker[b] \in Hearing /\ force
      BY <2>3 DEF RequestHeard, Hearing
    <3>2. b = c
      BY <1>3, <2>3, <3>1 DEF OneCheck, Hearing
    <3>3. (force' /\ next \in Hearing) \/ asked' = FALSE
      BY <1>3, <3>1, <3>2 DEF Hearing
    <3>. QED
      BY <2>1, <3>3 DEF RequestHeard, Hearing
  <2>4. CASE ~asked
    <3>1. asked' => asked
      BY <1>3
    <3>. QED
      BY <2>4, <3>1 DEF RequestHeard
  <2>. QED
    BY <2>2, <2>3, <2>4
<1>4. CASE CheckStarts(c)
  BY <1>2, <1>3, <1>4 DEF CheckStarts, At, Places, Hearing
<1>5. CASE Waited(c) \/ Queried(c)
  BY <1>2, <1>3, <1>5 DEF Waited, Queried, At, Places, Hearing
<1>6. CASE Shown(c)
  BY <1>2, <1>3, <1>6 DEF Shown, At, Places, Hearing
<1>7. CASE Answered(c)
  <2>1. checker[c] = "answer" /\ Goto(c, "clear") /\ UNCHANGED checking
    BY <1>7 DEF Answered, At
  <2>2. OneCheck'
    BY <1>2, <2>1 DEF Places
  <2>3. CASE force
    <3>1. asked' = FALSE
      BY <1>7, <2>3 DEF Answered
    <3>. QED
      BY <2>2, <3>1 DEF RequestHeard
  <2>4. CASE ~force
    <3>1. asked' => asked
      BY <1>7 DEF Answered
    <3>2. asked => mishap \cap {"late", "double", "refused", "reset"} # {}
      BY <2>4 DEF RequestHeard
    <3>. QED
      BY <2>2, <3>1, <3>2 DEF RequestHeard
  <2>. QED
    BY <2>3, <2>4
<1>8. CASE CheckClears(c)
  BY <1>2, <1>3, <1>8 DEF CheckClears, At, Places, Hearing
<1>9. CASE CheckEnds(c)
  BY <1>2, <1>3, <1>9 DEF CheckEnds, At, Places, Hearing
<1>10. CASE At(c, "dialog") /\ EndDialog(c) /\ UNCHANGED <<force, checking, asked>>
  BY <1>2, <1>3, <1>10 DEF EndDialog, At, Places, Hearing
<1>. QED
  BY <1>1, <1>4, <1>5, <1>6, <1>7, <1>8, <1>9, <1>10 DEF Checking, DialogClosed, Launched,
     checkVars

\* ZadigUpdate.RequestHeard: a request for a check always has a thread that is going to
\* answer it, but for the two races with the flags, a thread that could not be had, and a check
\* that was asked for before the window was set up.
THEOREM RequestIsHeard == Spec => []RequestHeard
<1>1. Init => CheckInv
  <2>. SUFFICES ASSUME Init PROVE CheckInv
    OBVIOUS
  <2>1. PICK place \in {"none", "start", "query", "hold", "answer"} :
          /\ checker = First(place) /\ checking = (place \notin {"none", "start"})
          /\ asked => mishap = {"reset"}
    BY DEF Init
  <2>2. checker[1] = place /\ \A c \in Checker : c # 1 => checker[c] = "none"
    BY <2>1 DEF First, Checker
  <2>3. OneCheck
    <3>1. 1 \in Checker /\ \A c \in Checker : checker[c] # "none" => c = 1
      BY <2>2 DEF Checker
    <3>2. checking <=> checker[1] \notin {"none", "start"}
      BY <2>1, <2>2
    <3>3. (\E c \in Checker : checker[c] \notin {"none", "start"}) <=> checker[1] \notin {"none", "start"}
      BY <3>1
    <3>. QED
      BY <3>1, <3>2, <3>3 DEF OneCheck
  <2>4. RequestHeard
    BY <2>1 DEF RequestHeard
  <2>. QED
    BY <2>3, <2>4, LoadsInit DEF LoadInv, CheckInv
<1>2. CheckInv /\ [Next]_vars => CheckInv'
  <2>. SUFFICES ASSUME CheckInv, [Next]_vars PROVE CheckInv'
    OBVIOUS
  <2>1. UpdateTypeOK /\ OneCheck /\ RequestHeard /\ mishap \subseteq mishap' /\ UpdateTypeOK'
    BY MishapStays, UpdateTyped DEF CheckInv
  <2>2. CASE CheckNow
    BY <2>1, <2>2, CheckByUser DEF CheckInv
  <2>3. ASSUME NEW c \in Checker, Checking(c) \/ DialogClosed(c) \/ Launched(c)
        PROVE  CheckInv'
    BY <2>1, <2>3, CheckByThread DEF CheckInv
  <2>4. CASE UNCHANGED checkVars
    BY <2>1, <2>4, CheckUndisturbed DEF CheckInv
  <2>. QED
    BY <2>2, <2>3, <2>4 DEF Next, SettingsOpened, SettingsClosed, DownloadClicked,
       AbortClicked, LaunchClicked, Downloading, LoadStarts, LoadCreates, LoadReads, LoadTells,
       LoadCloses, LoadUnlinks, updateVars, vars
<1>3. CheckInv => RequestHeard
  BY DEF CheckInv
<1>. QED
  BY <1>1, <1>2, <1>3, PTL DEF Spec

--------------------------------------------------------------------------------
(* The lists of devices.                                                        *)

\* There are finitely many devices.
LEMMA DevicesCounted ==
  /\ Hw \in Nat /\ Hw # 0 /\ 1 \in 1..Hw
  /\ \A S \in SUBSET (1..Hw) : IsFiniteSet(S) /\ Cardinality(S) \in 0..Hw
<1>1. Hw \in Nat /\ Hw # 0
  BY ZadigAssumption
<1>2. IsFiniteSet(1..Hw) /\ Cardinality(1..Hw) = Hw
  BY <1>1, FS_Interval
<1>3. \A S \in SUBSET (1..Hw) : IsFiniteSet(S) /\ Cardinality(S) <= Hw
  BY <1>2, FS_Subset
<1>4. \A S \in SUBSET (1..Hw) : Cardinality(S) \in Nat
  BY <1>3, FS_CardinalityType
<1>. QED
  BY <1>1, <1>3, <1>4

\* The devices of a set have their places in it: every place is that of one of them.
LEMMA PlacesTaken ==
  ASSUME NEW S \in SUBSET (1..Hw), NEW i \in 1..Cardinality(S)
  PROVE  \E h \in S : Cardinality({k \in S : k <= h}) = i
<1>. DEFINE n == Cardinality(S)
            upto(h) == {k \in S : k <= h}
            place == [h \in S |-> Cardinality(upto(h))]
<1>1. IsFiniteSet(S) /\ n \in Nat /\ S \subseteq Int
  BY DevicesCounted
<1>2. \A h \in S : /\ upto(h) \subseteq S /\ IsFiniteSet(upto(h)) /\ h \in upto(h)
                   /\ Cardinality(upto(h)) \in 1..n
  <2>1. SUFFICES ASSUME NEW h \in S
                 PROVE  /\ upto(h) \subseteq S /\ IsFiniteSet(upto(h)) /\ h \in upto(h)
                        /\ Cardinality(upto(h)) \in 1..n
    OBVIOUS
  <2>2. upto(h) \in SUBSET S /\ h \in upto(h)
    BY <1>1
  <2>3. IsFiniteSet(upto(h)) /\ Cardinality(upto(h)) <= n
    BY <1>1, <2>2, FS_Subset
  <2>4. Cardinality(upto(h)) \in Nat /\ Cardinality(upto(h)) # 0
    BY <2>2, <2>3, FS_CardinalityType, FS_EmptySet
  <2>. QED
    BY <1>1, <2>2, <2>3, <2>4
<1>3. ASSUME NEW h \in S, NEW k \in S, h < k
      PROVE  place[h] # place[k]
  <2>1. upto(h) \in SUBSET upto(k) /\ k \notin upto(h) /\ k \in upto(k)
    <3>1. h \in Int /\ k \in Int /\ ~(k <= h) /\ k <= k
      BY <1>1, <1>3
    <3>2. \A j \in S : j <= h => j <= k
      BY <1>1, <1>3
    <3>. QED
      BY <3>1, <3>2
  <2>2. Cardinality(upto(h)) # Cardinality(upto(k))
    BY <1>2, <2>1, FS_Subset
  <2>. QED
    BY <2>2
<1>4. place \in Injection(S, 1..n)
  <2>1. place \in [S -> 1..n]
    BY <1>2
  <2>2. \A h, k \in S : place[h] = place[k] => h = k
    BY <1>1, <1>3
  <2>. HIDE DEF place
  <2>. QED
    BY <2>1, <2>2 DEF Injection, IsInjective
<1>5. IsFiniteSet(1..n) /\ Cardinality(1..n) = n
  BY <1>1, FS_Interval
<1>6. place \in Surjection(S, 1..n)
  <2>. HIDE DEF place
  <2>. QED
    BY <1>4, <1>5, FS_Injection
<1>. QED
  BY <1>6 DEF Surjection

\* What the list holds: devices, no more than there are, of the list that is made.
LEMMA ListingTyped ==
  ASSUME world \in World, NEW g \in Nat, NEW v
  PROVE  /\ Listing(g, v) \in Seq(Rec) /\ Len(Listing(g, v)) <= Hw
         /\ Freed(Listing(g, v)) \subseteq {g}
<1>. DEFINE S == {h \in 1..Hw : /\ world[h].plugged
                                /\ world[h].driver = "none" \/ v.all
                                /\ world[h].driver = "hub" => v.hubs}
            n == Cardinality(S)
            at(i) == CHOOSE h \in S : Cardinality({k \in S : k <= h}) = i
<1>1. Listed(v) = [i \in 1..n |-> at(i)]
  BY DEF Listed
<1>2. \A i \in 1..n : at(i) \in 1..Hw
  BY PlacesTaken
<1>3. n \in Nat /\ n <= Hw
  BY DevicesCounted
<1>. HIDE DEF n, at
<1>4. DOMAIN Listed(v) = 1..n /\ \A i \in 1..n : Listed(v)[i] \in 1..Hw
  BY <1>1, <1>2
<1>5. \A h \in 1..Hw : [gen |-> g, hw |-> h, driver |-> world[h].driver,
                        filtered |-> world[h].filtered] \in Rec
  BY DEF World, Rec
<1>6. Listing(g, v) \in [1..n -> Rec] /\ \A i \in 1..n : Listing(g, v)[i].gen = g
  BY <1>4, <1>5 DEF Listing
<1>7. Listing(g, v) \in Seq(Rec) /\ Len(Listing(g, v)) = n
  BY <1>3, <1>6
<1>. QED
  BY <1>3, <1>6, <1>7 DEF Freed, Range

\* The elements of a sequence are finitely many.
LEMMA RangeFinite ==
  ASSUME NEW S, NEW s \in Seq(S)
  PROVE  IsFiniteSet(Range(s))
<1>1. Len(s) \in Nat /\ DOMAIN s = 1..Len(s) /\ s \in [1..Len(s) -> Range(s)]
  BY LenProperties DEF Range
<1>2. s \in Surjection(1..Len(s), Range(s))
  BY <1>1 DEF Surjection, Range
<1>3. IsFiniteSet(1..Len(s))
  BY <1>1, FS_Interval
<1>. QED
  BY <1>2, <1>3, FS_Surjection

\* So are their devices' lists and the devices of the boxes.
LEMMA FieldsFinite ==
  ASSUME NEW X, IsFiniteSet(X)
  PROVE  IsFiniteSet({x.gen : x \in X}) /\ IsFiniteSet({x.dev : x \in X})
<1>1. [x \in X |-> x.gen] \in Surjection(X, {x.gen : x \in X})
  BY DEF Surjection
<1>2. [x \in X |-> x.dev] \in Surjection(X, {x.dev : x \in X})
  BY DEF Surjection
<1>. QED
  BY <1>1, <1>2, FS_Surjection

\* A new list has a name that neither a list that is allocated nor a record has which the
\* window, its drop-down list or one of its boxes still refers to.
LEMMA FreshIsFresh ==
  ASSUME UiTypeOK, IsFiniteSet(alive)
  PROVE  /\ Fresh \in Nat \ {0} /\ Fresh \notin alive
         /\ \A v \in Range(w.list) \cup Range(w.items) \cup {w.device, w.edit} : Fresh # v.gen
         /\ \A i \in DOMAIN stack : Fresh # stack[i].dev.gen
<1>. DEFINE devs == {f.dev : f \in Range(stack)}
            recs == Range(w.list) \cup Range(w.items) \cup {w.device, w.edit} \cup devs
            used == {v.gen : v \in recs} \cup alive
            n == Cardinality(used)
<1>1. w.list \in Seq(Rec) /\ w.items \in Seq(Rec) /\ stack \in Seq(Frame)
  BY DEF UiTypeOK, Window
<1>2. IsFiniteSet(recs)
  <2>1. IsFiniteSet(Range(w.list)) /\ IsFiniteSet(Range(w.items)) /\ IsFiniteSet(devs)
    BY <1>1, RangeFinite, FieldsFinite
  <2>2. IsFiniteSet({w.device, w.edit})
    <3>1. IsFiniteSet({w.device})
      BY FS_Singleton
    <3>2. IsFiniteSet({w.device} \cup {w.edit})
      BY <3>1, FS_AddElement
    <3>. QED
      BY <3>2, Zenon
  <2>. HIDE DEF devs
  <2>. QED
    BY <2>1, <2>2, FS_Union
<1>3. IsFiniteSet(used)
  <2>. HIDE DEF recs
  <2>. QED
    BY <1>2, FieldsFinite, FS_Union
<1>4. \E g \in 1..(n + 1) : g \notin used
  <2>. HIDE DEF used
  <2>1. n \in Nat
    BY <1>3, FS_CardinalityType
  <2>2. IsFiniteSet(1..(n + 1)) /\ Cardinality(1..(n + 1)) = n + 1
    BY <2>1, FS_Interval
  <2>3. ~(1..(n + 1) \subseteq used)
    BY <1>3, <2>1, <2>2, FS_Subset
  <2>. QED
    BY <2>3
<1>5. Fresh = CHOOSE g \in 1..(n + 1) : g \notin used
  BY DEF Fresh
<1>6. Fresh \in 1..(n + 1) /\ Fresh \notin used
  <2>. HIDE DEF used
  <2>. QED
    BY <1>4, <1>5
<1>7. n \in Nat
  <2>. HIDE DEF used
  <2>. QED
    BY <1>3, FS_CardinalityType
<1>8. Fresh \in Nat \ {0} /\ Fresh \notin alive /\ \A v \in recs : Fresh # v.gen
  <2>. HIDE DEF recs, n
  <2>. QED
    BY <1>6, <1>7
<1>9. \A i \in DOMAIN stack : stack[i].dev \in devs
  BY DEF Range
<1>. QED
  BY <1>8, <1>9

\* A message that is added to a queue, or taken off it.
LEMMA Queued ==
  ASSUME NEW q \in Seq(Messages)
  PROVE  /\ \A m \in Messages : /\ Append(q, m) \in Seq(Messages) /\ Append(q, m) # <<>>
                                /\ Range(Append(q, m)) = Range(q) \cup {m}
         /\ q # <<>> => /\ Head(q) \in Messages /\ Tail(q) \in Seq(Messages)
                        /\ Range(q) = {Head(q)} \cup Range(Tail(q))
         /\ Range(q) \subseteq Messages
<1>1. Range(q) = {q[i] : i \in 1..Len(q)} /\ Len(q) \in Nat
  BY RangeEquality, LenProperties
<1>2. ASSUME NEW m \in Messages
      PROVE  /\ Append(q, m) \in Seq(Messages) /\ Append(q, m) # <<>>
             /\ Range(Append(q, m)) = Range(q) \cup {m}
  <2>1. /\ Append(q, m) \in Seq(Messages) /\ Len(Append(q, m)) = Len(q) + 1
        /\ Append(q, m) # <<>> /\ Append(q, m)[Len(q) + 1] = m
        /\ \A i \in 1..Len(q) : Append(q, m)[i] = q[i]
    BY AppendProperties
  <2>2. Range(Append(q, m)) = {Append(q, m)[i] : i \in 1..(Len(q) + 1)}
    BY <2>1, RangeEquality
  <2>. QED
    BY <1>1, <2>1, <2>2
<1>3. ASSUME q # <<>>
      PROVE  /\ Head(q) \in Messages /\ Tail(q) \in Seq(Messages)
             /\ Range(q) = {Head(q)} \cup Range(Tail(q))
  <2>1. /\ Head(q) = q[1] /\ Head(q) \in Messages /\ Tail(q) \in Seq(Messages)
        /\ Len(Tail(q)) = Len(q) - 1 /\ Len(q) \in Nat \ {0}
        /\ \A i \in 1..(Len(q) - 1) : Tail(q)[i] = q[i + 1]
    BY <1>3, HeadTailProperties, EmptySeq
  <2>2. Range(Tail(q)) = {Tail(q)[i] : i \in 1..(Len(q) - 1)}
    BY <2>1, RangeEquality
  <2>3. \A i \in 2..Len(q) : q[i] \in Range(Tail(q))
    <3>1. SUFFICES ASSUME NEW i \in 2..Len(q) PROVE q[i] \in Range(Tail(q))
      OBVIOUS
    <3>2. i - 1 \in 1..(Len(q) - 1) /\ (i - 1) + 1 = i
      BY <2>1
    <3>3. q[i] = Tail(q)[i - 1]
      BY <2>1, <3>2
    <3>. QED
      BY <2>2, <3>2, <3>3
  <2>4. Range(Tail(q)) \subseteq Range(q) /\ Head(q) \in Range(q)
    BY <1>1, <2>1, <2>2
  <2>5. \A i \in 1..Len(q) : q[i] \in {Head(q)} \cup Range(Tail(q))
    BY <2>1, <2>2, <2>3
  <2>. QED
    BY <1>1, <2>1, <2>4, <2>5
<1>. QED
  BY <1>1, <1>2, <1>3

--------------------------------------------------------------------------------
(* What the functions of the window do to it.                                   *)

\* The texts of the button.
Labels == {"", "WCID", "Filter"} \X {"Extract", "Install", "Replace", "Reinstall", "Delete"}

\* The types of the fields of the window that are not flags,
LEMMA FieldsOf ==
  ASSUME NEW v \in Window
  PROVE  /\ v.list \in Seq(Rec) /\ v.device \in Rec /\ v.items \in Seq(Rec)
         /\ v.sel \in 0..Hw /\ v.current \in 0..Hw /\ v.hwid \in 0..Hw /\ v.edit \in Rec
         /\ v.wcid \in {"yes", "no", "none"} /\ v.wtype \in Range(Types)
         /\ v.type \in Range(Types) /\ v.label \in Labels
  BY ZenonT(60) DEF Window, Labels

\* and those of its flags.
LEMMA FlagsOf ==
  ASSUME NEW v \in Window
  PROVE  /\ v.editing \in BOOLEAN /\ v.editbox \in BOOLEAN
         /\ v.create \in BOOLEAN /\ v.menu \in BOOLEAN /\ v.found \in BOOLEAN /\ v.replace \in BOOLEAN
         /\ v.use_wcid \in BOOLEAN /\ v.filter \in BOOLEAN /\ v.has_filter \in BOOLEAN
         /\ v.extract \in BOOLEAN /\ v.all \in BOOLEAN /\ v.hubs \in BOOLEAN
         /\ v.from_install \in BOOLEAN /\ v.installing \in BOOLEAN
  BY ZenonT(60) DEF Window

\* A field may be set to any value of its type: a list or a device,
LEMMA SetDevices ==
  ASSUME NEW v \in Window
  PROVE  /\ \A x \in Seq(Rec) : [v EXCEPT !.list = x] \in Window /\ [v EXCEPT !.items = x] \in Window
         /\ \A x \in Rec : [v EXCEPT !.device = x] \in Window /\ [v EXCEPT !.edit = x] \in Window
  BY ZenonT(60) DEF Window

\* a position,
LEMMA SetNumbers ==
  ASSUME NEW v \in Window
  PROVE  \A x \in 0..Hw : /\ [v EXCEPT !.sel = x] \in Window /\ [v EXCEPT !.current = x] \in Window
                          /\ [v EXCEPT !.hwid = x] \in Window
  BY ZenonT(60) DEF Window

\* a name,
LEMMA SetNames ==
  ASSUME NEW v \in Window
  PROVE  /\ \A x \in {"yes", "no", "none"} : [v EXCEPT !.wcid = x] \in Window
         /\ \A x \in Range(Types) : [v EXCEPT !.wtype = x] \in Window /\ [v EXCEPT !.type = x] \in Window
         /\ \A x \in Labels : [v EXCEPT !.label = x] \in Window
  BY ZenonT(60) DEF Window, Labels

\* a flag.
LEMMA SetFlags ==
  ASSUME NEW v \in Window, NEW x \in BOOLEAN
  PROVE  /\ [v EXCEPT !.editing = x] \in Window /\ [v EXCEPT !.editbox = x] \in Window
         /\ [v EXCEPT !.create = x] \in Window /\ [v EXCEPT !.menu = x] \in Window
         /\ [v EXCEPT !.found = x] \in Window /\ [v EXCEPT !.replace = x] \in Window
         /\ [v EXCEPT !.use_wcid = x] \in Window /\ [v EXCEPT !.filter = x] \in Window
         /\ [v EXCEPT !.has_filter = x] \in Window /\ [v EXCEPT !.extract = x] \in Window
         /\ [v EXCEPT !.all = x] \in Window /\ [v EXCEPT !.hubs = x] \in Window
         /\ [v EXCEPT !.from_install = x] \in Window /\ [v EXCEPT !.installing = x] \in Window
<1>1. [v EXCEPT !.editing = x] \in Window /\ [v EXCEPT !.editbox = x] \in Window
  BY ZenonT(60) DEF Window
<1>2. [v EXCEPT !.create = x] \in Window /\ [v EXCEPT !.menu = x] \in Window
  BY ZenonT(60) DEF Window
<1>3. [v EXCEPT !.found = x] \in Window /\ [v EXCEPT !.replace = x] \in Window
  BY ZenonT(60) DEF Window
<1>4. [v EXCEPT !.use_wcid = x] \in Window /\ [v EXCEPT !.filter = x] \in Window
  BY ZenonT(60) DEF Window
<1>5. [v EXCEPT !.has_filter = x] \in Window /\ [v EXCEPT !.extract = x] \in Window
  BY ZenonT(60) DEF Window
<1>6. [v EXCEPT !.all = x] \in Window /\ [v EXCEPT !.hubs = x] \in Window
  BY ZenonT(60) DEF Window
<1>7. [v EXCEPT !.from_install = x] \in Window /\ [v EXCEPT !.installing = x] \in Window
  BY ZenonT(60) DEF Window
<1>. QED
  BY <1>1, <1>2, <1>3, <1>4, <1>5, <1>6, <1>7

\* The names of the fields.
Fields == {"list", "device", "items", "sel", "current", "hwid", "edit", "editing", "editbox",
  "create", "menu", "found", "replace", "wcid", "wtype", "use_wcid", "type", "filter",
  "has_filter", "extract", "all", "hubs", "from_install", "installing", "label"}
\* A window has these fields, and no others.
LEMMA FieldNames == \A v \in Window : DOMAIN v = Fields
  BY DEF Window, Fields

\* What the text of the button depends on.
LabelParts(v) == <<v.use_wcid, v.filter, v.extract, v.device, v.replace, v.has_filter, v.wcid, v.type>>

\* Windows that agree in these parts have the same text on their button.
LEMMA LabelDepends ==
  ASSUME NEW v, NEW u, LabelParts(u) = LabelParts(v)
  PROVE  Label(u) = Label(v)
  BY DEF LabelParts, Label

\* Label answers one of the texts.
LEMMA LabelTyped ==
  ASSUME NEW v
  PROVE  Label(v) \in Labels
  BY DEF Label, Labels

\* What an operation on the window leaves alone.
Kept(u, v, changed) == \A f \in Fields \ changed : u[f] = v[f]

\* No device is a value of the type of devices.
LEMMA NoDevTyped == NoDev \in Rec
  BY DevicesCounted DEF NoDev, Rec

\* SetInstallButton changes the text of the button, to that which fits.
LEMMA ButtonTyped ==
  ASSUME NEW v \in Window
  PROVE  LET u == SetInstallButton(v) IN
         u \in Window /\ Kept(u, v, {"label"}) /\ u.label = Label(u)
<1>. DEFINE u == SetInstallButton(v)
<1>1. u \in Window
  BY LabelTyped, SetNames DEF SetInstallButton, Labels
<1>2. LabelParts(u) = LabelParts(v) /\ u.label = Label(v) /\ Kept(u, v, {"label"})
  BY FieldNames DEF SetInstallButton, LabelParts, Fields, Kept
<1>. QED
  BY <1>1, <1>2, LabelDepends

\* UpdateUi changes what concerns the filter.
LEMMA UiTyped ==
  ASSUME NEW v \in Window
  PROVE  UpdateUi(v) \in Window /\ Kept(UpdateUi(v), v, {"filter", "has_filter"})
<1>1. (v.filter /\ v.type = "libusb0") \in BOOLEAN /\ v.device.filtered \in BOOLEAN
  BY FieldsOf, FlagsOf DEF Rec
<1>2. UpdateUi(v) \in Window
  <2>1. [v EXCEPT !.filter = v.filter /\ v.type = "libusb0"] \in Window
    BY <1>1, SetFlags
  <2>. QED
    BY <1>1, <2>1, SetFlags, Zenon DEF UpdateUi
<1>3. Kept(UpdateUi(v), v, {"filter", "has_filter"})
  BY FieldNames DEF UpdateUi, Fields, Kept
<1>. QED
  BY <1>2, <1>3

\* SetDriver changes whether WCID is used.
LEMMA DriverTyped ==
  ASSUME NEW v \in Window
  PROVE  SetDriver(v) \in Window /\ Kept(SetDriver(v), v, {"use_wcid"})
<1>1. (~v.found \/ (v.wcid = "yes" /\ v.type = v.wtype)) \in BOOLEAN
  OBVIOUS
<1>2. SetDriver(v) \in Window
  BY <1>1, SetFlags DEF SetDriver
<1>3. Kept(SetDriver(v), v, {"use_wcid"})
  BY FieldNames DEF SetDriver, Fields, Kept
<1>. QED
  BY <1>2, <1>3

\* DisplayDevices shows the list, with an item of it selected or none.
LEMMA DisplayTyped ==
  ASSUME NEW v \in Window, Len(v.list) <= Hw
  PROVE  LET u == DisplayDevices(v) IN
         /\ u \in Window /\ u.items = v.list /\ u.sel \in DOMAIN u.items \cup {0}
         /\ \A f \in Fields \ {"items", "found", "current", "hwid", "sel"} : u[f] = v[f]
<1>. DEFINE same(i) == v.list[i].hw = v.hwid
            known == v.hwid # 0 /\ \E i \in DOMAIN v.list : same(i)
            current == IF known THEN CHOOSE i \in DOMAIN v.list : same(i)
                       ELSE IF v.current = 0 THEN 1 ELSE v.current
            found == v.list # <<>>
            hwid == IF known THEN 0 ELSE v.hwid
            sel == IF current \in DOMAIN v.list THEN current ELSE 0
            u == [v EXCEPT !.items = v.list, !.found = found, !.current = current, !.hwid = hwid,
                           !.sel = sel]
<1>1. DisplayDevices(v) = u
  BY DEF DisplayDevices
<1>2. v.list \in Seq(Rec) /\ DOMAIN v.list \subseteq 1..Hw /\ 1 \in 0..Hw /\ 0 \in 0..Hw
  <2>1. v.list \in Seq(Rec) /\ DOMAIN v.list = 1..Len(v.list) /\ Len(v.list) \in Nat
    BY FieldsOf, LenProperties
  <2>. QED
    BY <2>1, DevicesCounted
<1>3. current \in 0..Hw /\ hwid \in 0..Hw /\ sel \in 0..Hw /\ sel \in DOMAIN v.list \cup {0}
  BY <1>2, FieldsOf
<1>4. \A b \in BOOLEAN : \A c, h, s \in 0..Hw :
        [v EXCEPT !.items = v.list, !.found = b, !.current = c, !.hwid = h, !.sel = s] \in Window
  BY <1>2, SetDevices, SetFlags, SetNumbers
<1>5. u \in Window
  <2>1. found \in BOOLEAN
    OBVIOUS
  <2>. HIDE DEF found, current, hwid, sel
  <2>. QED
    BY <1>3, <1>4, <2>1
<1>6. u.items = v.list /\ u.sel = sel
      /\ \A f \in Fields \ {"items", "found", "current", "hwid", "sel"} : u[f] = v[f]
  <2>. HIDE DEF found, current, hwid, sel
  <2>. QED
    BY FieldNames DEF Fields
<1>. QED
  BY <1>1, <1>3, <1>5, <1>6

\* ToggleEdit starts an edit of the device, or ends it and shows the list again.
LEMMA ToggleEditTyped ==
  ASSUME NEW v \in Window, Len(v.list) <= Hw
  PROVE  LET u == ToggleEdit(v) IN
         /\ u \in Window
         /\ v.editing /\ v.device # NoDev =>
              /\ Kept(u, v, {"editbox", "edit"}) /\ u.editbox
              /\ u.edit = IF v.edit # NoDev THEN v.edit ELSE v.device
         /\ ~(v.editing /\ v.device # NoDev) =>
              /\ Kept(u, v, {"editbox", "edit", "items", "found", "current", "hwid", "sel"})
              /\ u.edit = NoDev /\ u.items = v.list /\ u.sel \in DOMAIN u.items \cup {0}
<1>. DEFINE u == ToggleEdit(v)
<1>1. CASE v.editing /\ v.device # NoDev
  <2>1. CASE v.edit # NoDev
    <3>1. u = [v EXCEPT !.editbox = TRUE]
      BY <1>1, <2>1 DEF ToggleEdit
    <3>2. u \in Window
      BY <3>1, SetFlags
    <3>3. Kept(u, v, {"editbox", "edit"}) /\ u.editbox /\ u.edit = v.edit
      BY <3>1, FieldNames DEF Fields, Kept
    <3>. QED
      BY <1>1, <2>1, <3>2, <3>3
  <2>2. CASE v.edit = NoDev
    <3>1. u = [v EXCEPT !.editbox = TRUE, !.edit = v.device]
      BY <1>1, <2>2 DEF ToggleEdit
    <3>2. u \in Window
      <4>1. [v EXCEPT !.editbox = TRUE] \in Window /\ v.device \in Rec
        BY SetFlags, FieldsOf
      <4>. QED
        BY <3>1, <4>1, SetDevices
    <3>3. Kept(u, v, {"editbox", "edit"}) /\ u.editbox /\ u.edit = v.device
      BY <3>1, FieldNames DEF Fields, Kept
    <3>. QED
      BY <1>1, <2>2, <3>2, <3>3
  <2>. QED
    BY <2>1, <2>2
<1>2. CASE ~(v.editing /\ v.device # NoDev)
  <2>. DEFINE boxless == [v EXCEPT !.editbox = FALSE]
              shown == DisplayDevices(boxless)
  <2>1. u = [shown EXCEPT !.edit = NoDev]
    BY <1>2 DEF ToggleEdit
  <2>2. boxless \in Window /\ boxless.list = v.list /\ Kept(boxless, v, {"editbox"})
    BY SetFlags, FieldNames DEF Fields, Kept
  <2>3. /\ shown \in Window /\ shown.items = v.list /\ shown.sel \in DOMAIN shown.items \cup {0}
        /\ Kept(shown, boxless, {"items", "found", "current", "hwid", "sel"})
    <3>. HIDE DEF boxless
    <3>. QED
      BY <2>2, DisplayTyped DEF Kept
  <2>. HIDE DEF boxless, shown
  <2>4. u \in Window
    BY <2>1, <2>3, NoDevTyped, SetDevices
  <2>5. /\ u.edit = NoDev /\ u.items = shown.items /\ u.sel = shown.sel /\ Kept(u, shown, {"edit"})
    BY <2>1, <2>3, FieldNames DEF Fields, Kept
  <2>6. Kept(u, v, {"editbox", "edit", "items", "found", "current", "hwid", "sel"})
    BY <2>2, <2>3, <2>5 DEF Kept
  <2>. QED
    BY <1>2, <2>3, <2>4, <2>5, <2>6
<1>. QED
  BY <1>1, <1>2

\* ToggleCreate turns the mode that creates a device on, and ends an edit, or turns it off.
LEMMA ToggleCreateTyped ==
  ASSUME NEW v \in Window, Len(v.list) <= Hw
  PROVE  LET u == ToggleCreate(v) IN
         /\ u \in Window /\ u.create = ~v.menu /\ u.menu = ~v.menu /\ u.label = Label(u)
         /\ Kept(u, v, Fields \ {"list", "installing", "from_install", "all", "hubs", "type"})
         /\ v.menu => Kept(u, v, {"editbox", "create", "menu", "use_wcid", "replace", "label"})
         /\ ~v.menu => /\ u.device = NoDev
                       /\ \/ /\ v.editing /\ u.edit = NoDev /\ ~u.editing /\ u.items = v.list
                             /\ u.sel \in DOMAIN u.items \cup {0}
                          \/ /\ ~v.editing /\ u.edit = v.edit /\ ~u.editing /\ u.items = v.items
                             /\ u.sel = v.sel
<1>. DEFINE u == ToggleCreate(v)
            on == ~v.menu
            stopped == [v EXCEPT !.device = NoDev, !.editing = FALSE]
            calm == IF v.editing THEN ToggleEdit(stopped) ELSE v
            blank == [calm EXCEPT !.device = NoDev, !.editbox = TRUE, !.wcid = "none"]
            shown == IF on THEN UpdateUi(blank) ELSE [v EXCEPT !.editbox = FALSE]
            moded == [shown EXCEPT !.create = on, !.menu = on, !.use_wcid = FALSE, !.replace = FALSE]
<1>1. u = SetInstallButton(moded)
  <2>1. CASE on
    BY <2>1 DEF ToggleCreate
  <2>2. CASE ~on
    BY <2>2 DEF ToggleCreate
  <2>. QED
    BY <2>1, <2>2
<1>2. stopped \in Window /\ Kept(stopped, v, {"device", "editing"}) /\ stopped.device = NoDev
      /\ ~stopped.editing
  BY NoDevTyped, SetDevices, SetFlags, FieldNames DEF Fields, Kept
<1>3. /\ calm \in Window
      /\ Kept(calm, v, {"device", "editing", "editbox", "edit", "items", "found", "current", "hwid", "sel"})
      /\ \/ /\ v.editing /\ calm.edit = NoDev /\ ~calm.editing /\ calm.items = v.list
            /\ calm.sel \in DOMAIN calm.items \cup {0}
         \/ ~v.editing /\ calm = v
  <2>. HIDE DEF stopped
  <2>1. stopped.list = v.list
    BY <1>2 DEF Kept, Fields
  <2>2. CASE v.editing
    <3>1. calm = ToggleEdit(stopped)
      BY <2>2
    <3>2. /\ calm \in Window /\ calm.edit = NoDev /\ calm.items = stopped.list
          /\ calm.sel \in DOMAIN calm.items \cup {0}
          /\ Kept(calm, stopped, {"editbox", "edit", "items", "found", "current", "hwid", "sel"})
      BY <1>2, <2>1, <3>1, ToggleEditTyped
    <3>3. calm.editing = stopped.editing
      BY <3>2 DEF Kept, Fields
    <3>. QED
      BY <1>2, <2>1, <2>2, <3>2, <3>3 DEF Kept
  <2>3. CASE ~v.editing
    BY <2>3 DEF Kept
  <2>. QED
    BY <2>2, <2>3
<1>. HIDE DEF calm
<1>4. blank \in Window /\ blank.device = NoDev /\ Kept(blank, calm, {"device", "editbox", "wcid"})
  BY <1>3, NoDevTyped, SetDevices, SetFlags, SetNames, FieldNames DEF Fields, Kept
<1>. HIDE DEF blank
<1>5. CASE on
  <2>1. shown \in Window /\ Kept(shown, blank, {"filter", "has_filter"})
    BY <1>4, <1>5, UiTyped
  <2>. HIDE DEF shown
  <2>2. /\ moded \in Window /\ moded.create = on /\ moded.menu = on
        /\ Kept(moded, shown, {"create", "menu", "use_wcid", "replace"})
    BY <2>1, SetFlags, FieldNames DEF Fields, Kept
  <2>. HIDE DEF moded
  <2>3. u \in Window /\ Kept(u, moded, {"label"}) /\ u.label = Label(u)
    BY <1>1, <2>2, ButtonTyped
  <2>4. u.create = on /\ u.menu = on /\ u.device = NoDev
    BY <1>4, <2>1, <2>2, <2>3 DEF Kept, Fields
  <2>5. Kept(u, v, Fields \ {"list", "installing", "from_install", "all", "hubs", "type"})
    BY <1>3, <1>4, <2>1, <2>2, <2>3 DEF Kept, Fields
  <2>6. u.edit = calm.edit /\ u.editing = calm.editing /\ u.items = calm.items /\ u.sel = calm.sel
    BY <1>4, <2>1, <2>2, <2>3 DEF Kept, Fields
  <2>. QED
    BY <1>3, <1>5, <2>3, <2>4, <2>5, <2>6
<1>6. CASE ~on
  <2>1. shown \in Window /\ Kept(shown, v, {"editbox"})
    BY <1>6, SetFlags, FieldNames DEF Fields, Kept
  <2>. HIDE DEF shown
  <2>2. /\ moded \in Window /\ moded.create = on /\ moded.menu = on
        /\ Kept(moded, shown, {"create", "menu", "use_wcid", "replace"})
    BY <2>1, SetFlags, FieldNames DEF Fields, Kept
  <2>. HIDE DEF moded
  <2>3. u \in Window /\ Kept(u, moded, {"label"}) /\ u.label = Label(u)
    BY <1>1, <2>2, ButtonTyped
  <2>4. u.create = on /\ u.menu = on
    BY <2>2, <2>3 DEF Kept, Fields
  <2>5. Kept(u, v, {"editbox", "create", "menu", "use_wcid", "replace", "label"})
    BY <2>1, <2>2, <2>3 DEF Kept
  <2>6. Kept(u, v, Fields \ {"list", "installing", "from_install", "all", "hubs", "type"})
    BY <2>5 DEF Kept, Fields
  <2>. QED
    BY <1>6, <2>3, <2>4, <2>5, <2>6
<1>. QED
  BY <1>5, <1>6

\* ToggleList ends an edit, and the mode that creates a device.
LEMMA ToggleListTyped ==
  ASSUME NEW v \in Window, Len(v.list) <= Hw, NEW hubs \in BOOLEAN, v.create = v.menu
  PROVE  LET u == ToggleList(v, hubs) IN
         /\ u \in Window /\ ~u.editing /\ ~u.editbox
         /\ Kept(u, v, {"hubs", "all", "editing", "editbox"})
            \/ /\ v.create /\ ~u.create /\ ~u.menu /\ u.label = Label(u)
               /\ Kept(u, v, {"hubs", "all", "editing", "editbox", "create", "menu", "use_wcid",
                              "replace", "label"})
<1>. DEFINE u == ToggleList(v, hubs)
            changed == IF hubs THEN [v EXCEPT !.hubs = ~v.hubs] ELSE [v EXCEPT !.all = ~v.all]
            settled == IF v.create THEN ToggleCreate(changed) ELSE changed
<1>1. u = [settled EXCEPT !.editing = FALSE, !.editbox = FALSE]
  <2>1. changed.create = v.create
    BY FieldNames DEF Fields
  <2>2. CASE hubs
    BY <2>1, <2>2 DEF ToggleList
  <2>3. CASE ~hubs
    BY <2>1, <2>3 DEF ToggleList
  <2>. QED
    BY <2>2, <2>3
<1>2. changed \in Window /\ Kept(changed, v, {"hubs", "all"})
  <2>1. (~v.hubs) \in BOOLEAN /\ (~v.all) \in BOOLEAN
    OBVIOUS
  <2>. QED
    BY <2>1, SetFlags, FieldNames DEF Fields, Kept
<1>. HIDE DEF changed
<1>3. changed.list = v.list /\ changed.menu = v.menu
  BY <1>2 DEF Kept, Fields
<1>4. /\ settled \in Window
      /\ \/ Kept(settled, v, {"hubs", "all"})
         \/ /\ v.create /\ ~settled.create /\ ~settled.menu /\ settled.label = Label(settled)
            /\ Kept(settled, v, {"hubs", "all", "editbox", "create", "menu", "use_wcid",
                                 "replace", "label"})
  <2>1. CASE v.create
    <3>1. settled = ToggleCreate(changed)
      BY <2>1
    <3>2. /\ settled \in Window /\ ~settled.create /\ ~settled.menu
          /\ settled.label = Label(settled)
          /\ Kept(settled, changed, {"editbox", "create", "menu", "use_wcid", "replace", "label"})
      BY <1>2, <1>3, <2>1, <3>1, ToggleCreateTyped
    <3>. QED
      BY <1>2, <2>1, <3>2 DEF Kept
  <2>2. CASE ~v.create
    BY <1>2, <2>2
  <2>. QED
    BY <2>1, <2>2
<1>. HIDE DEF settled
<1>5. u \in Window /\ ~u.editing /\ ~u.editbox /\ Kept(u, settled, {"editing", "editbox"})
  <2>1. [settled EXCEPT !.editing = FALSE] \in Window
    BY <1>4, SetFlags
  <2>2. u \in Window
    BY <1>1, <2>1, SetFlags
  <2>. QED
    BY <1>1, <1>4, <2>2, FieldNames DEF Fields, Kept
<1>6. LabelParts(u) = LabelParts(settled) /\ u.label = settled.label
      /\ u.create = settled.create /\ u.menu = settled.menu
  BY <1>5 DEF LabelParts, Kept, Fields
<1>7. Label(u) = Label(settled)
  BY <1>6, LabelDepends
<1>. QED
  BY <1>4, <1>5, <1>6, <1>7 DEF Kept

\* A position in the list of types that is counted beyond its end.
LEMMA WrapsAround ==
  ASSUME NEW k \in Nat \ {0}, NEW x \in 0..(k - 1)
  PROVE  (k + x) % k = x /\ (k + k + x) % k = x /\ x % k = x
  OBVIOUS

\* A set of numbers has a least one.
LEMMA LeastOf ==
  ASSUME NEW S \in SUBSET Nat, S # {}
  PROVE  \E x \in S : \A y \in S : x <= y
<1>. DEFINE less == {p \in Nat \X Nat : p[1] < p[2]}
<1>1. IsWellFoundedOn(less, Nat)
  BY NatLessThanWellFounded DEF OpToRel
<1>2. \A x, y \in Nat : ~(<<y, x>> \in less) => x <= y
  OBVIOUS
<1>. HIDE DEF less
<1>3. PICK x \in S : \A y \in S : ~(<<y, x>> \in less)
  BY <1>1, WFMin
<1>. QED
  BY <1>2, <1>3

\* A type that is supported is found, whatever the direction.
LEMMA NextIsSupported ==
  ASSUME NEW v \in Window, NEW increment \in {-1, 1}
  PROVE  LET n == Len(Types)
             now == CHOOSE i \in 1..n : Types[i] = v.type
             at(k) == Types[((n + now - 1 + k * increment) % n) + 1]
             k0 == CHOOSE k \in 1..n : /\ at(k) \in Supported
                                       /\ \A j \in 1..(k - 1) : at(j) \notin Supported
         IN at(k0) \in Supported
<1>. DEFINE n == Len(Types)
            now == CHOOSE i \in 1..n : Types[i] = v.type
            place(k) == ((n + now - 1 + k * increment) % n) + 1
            at(k) == Types[place(k)]
            K == {k \in 1..n : at(k) \in Supported}
<1>1. n \in Nat /\ Range(Types) = {Types[i] : i \in 1..n}
  BY ZadigAssumption, LenProperties, RangeEquality
<1>2. PICK j \in 1..n : Types[j] \in Supported
  BY <1>1, ZadigAssumption
<1>3. now \in 1..n
  BY <1>1, FieldsOf
<1>. HIDE DEF now
<1>4. \E k \in 1..n : place(k) = j
  <2>1. CASE increment = 1
    <3>1. CASE j > now
      <4>1. j - now \in 1..n /\ n + now - 1 + (j - now) * increment = n + (j - 1)
        BY <1>1, <1>2, <1>3, <2>1, <3>1
      <4>2. (n + (j - 1)) % n = j - 1
        BY <1>1, <1>2, WrapsAround
      <4>3. place(j - now) = j
        BY <1>2, <4>1, <4>2
      <4>. QED
        BY <4>1, <4>3
    <3>2. CASE j <= now
      <4>1. j - now + n \in 1..n /\ n + now - 1 + (j - now + n) * increment = n + n + (j - 1)
        BY <1>1, <1>2, <1>3, <2>1, <3>2
      <4>2. (n + n + (j - 1)) % n = j - 1
        BY <1>1, <1>2, WrapsAround
      <4>3. place(j - now + n) = j
        BY <1>2, <4>1, <4>2
      <4>. QED
        BY <4>1, <4>3
    <3>. QED
      BY <1>2, <1>3, <3>1, <3>2
  <2>2. CASE increment = -1
    <3>1. CASE j < now
      <4>1. now - j \in 1..n /\ n + now - 1 + (now - j) * increment = n + (j - 1)
        BY <1>1, <1>2, <1>3, <2>2, <3>1
      <4>2. (n + (j - 1)) % n = j - 1
        BY <1>1, <1>2, WrapsAround
      <4>3. place(now - j) = j
        BY <1>2, <4>1, <4>2
      <4>. QED
        BY <4>1, <4>3
    <3>2. CASE j >= now
      <4>1. now - j + n \in 1..n /\ n + now - 1 + (now - j + n) * increment = j - 1
        BY <1>1, <1>2, <1>3, <2>2, <3>2
      <4>2. (j - 1) % n = j - 1
        BY <1>1, <1>2, WrapsAround
      <4>3. place(now - j + n) = j
        BY <1>2, <4>1, <4>2
      <4>. QED
        BY <4>1, <4>3
    <3>. QED
      BY <1>2, <1>3, <3>1, <3>2
  <2>. QED
    BY <2>1, <2>2
<1>5. K # {} /\ K \subseteq Nat
  BY <1>2, <1>4
<1>6. \E k \in K : \A i \in K : k <= i
  <2>. HIDE DEF K
  <2>. QED
    BY <1>5, LeastOf
<1>7. \E k \in 1..n : at(k) \in Supported /\ \A i \in 1..(k - 1) : at(i) \notin Supported
  <2>1. PICK k \in K : \A i \in K : k <= i
    BY <1>6
  <2>2. \A i \in 1..(k - 1) : i \in 1..n /\ ~(k <= i)
    BY <1>1, <2>1
  <2>3. \A i \in 1..(k - 1) : at(i) \notin Supported
    BY <2>1, <2>2
  <2>. QED
    BY <2>1, <2>3
<1>. HIDE DEF at
<1>8. at(CHOOSE k \in 1..n : at(k) \in Supported /\ \A i \in 1..(k - 1) : at(i) \notin Supported)
        \in Supported
  BY <1>7
<1>. QED
  BY <1>8 DEF at, now

\* SelectNextDriver changes the type, and whether WCID is used.
LEMMA NextDriverTyped ==
  ASSUME NEW v \in Window, NEW increment \in {-1, 1}
  PROVE  LET u == SelectNextDriver(v, increment) IN
         u \in Window /\ Kept(u, v, {"type", "use_wcid"})
<1>1. PICK t \in Supported : SelectNextDriver(v, increment) = SetDriver([v EXCEPT !.type = t])
  BY NextIsSupported DEF SelectNextDriver
<1>2. t \in Range(Types)
  BY ZadigAssumption
<1>3. [v EXCEPT !.type = t] \in Window
  BY <1>2, SetNames
<1>4. Kept([v EXCEPT !.type = t], v, {"type"})
  BY FieldNames, SMTT(30) DEF Fields, Kept
<1>. QED
  BY <1>1, <1>3, <1>4, DriverTyped DEF Kept

\* ChooseWcid changes the type, and what concerns WCID.
LEMMA WcidTyped ==
  ASSUME NEW v \in Window
  PROVE  LET u == ChooseWcid(v) IN
         u \in Window /\ Kept(u, v, {"wcid", "use_wcid", "wtype", "type"})
<1>. DEFINE id == WcidOf[v.device.hw]
            type == IF id \in {"WinUSB", "libusb0"} THEN id ELSE "libusbK"
            plain == [v EXCEPT !.wcid = "no", !.use_wcid = FALSE]
            other == [v EXCEPT !.wcid = "yes", !.use_wcid = FALSE, !.wtype = type]
            chosen == [v EXCEPT !.wcid = "yes", !.use_wcid = TRUE, !.wtype = type, !.type = type]
<1>1. type \in Range(Types)
  BY ZadigAssumption
<1>. HIDE DEF type
<1>2. plain \in Window /\ Kept(plain, v, {"wcid", "use_wcid"})
  <2>1. [v EXCEPT !.wcid = "no"] \in Window
    BY SetNames
  <2>. QED
    BY <2>1, SetFlags, FieldNames DEF Fields, Kept
<1>3. /\ other \in Window /\ Kept(other, v, {"wcid", "use_wcid", "wtype"})
      /\ chosen \in Window /\ Kept(chosen, v, {"wcid", "use_wcid", "wtype", "type"})
  <2>1. [v EXCEPT !.wcid = "yes"] \in Window
    BY SetNames
  <2>2. \A b \in BOOLEAN : [v EXCEPT !.wcid = "yes", !.use_wcid = b] \in Window
    BY <2>1, SetFlags
  <2>3. /\ [v EXCEPT !.wcid = "yes", !.use_wcid = TRUE, !.wtype = type] \in Window
        /\ other \in Window
    BY <1>1, <2>2, SetNames
  <2>4. chosen \in Window
    BY <1>1, <2>3, SetNames
  <2>. QED
    BY <2>3, <2>4, FieldNames DEF Fields, Kept
<1>4. SetDriver(chosen) \in Window
      /\ Kept(SetDriver(chosen), v, {"wcid", "use_wcid", "wtype", "type"})
  <2>. HIDE DEF chosen
  <2>. QED
    BY <1>3, DriverTyped DEF Kept
<1>5. ChooseWcid(v) \in {plain, other, SetDriver(chosen)}
  BY DEF ChooseWcid, type
<1>. HIDE DEF plain, other, chosen
<1>. QED
  BY <1>2, <1>3, <1>4, <1>5 DEF Kept

\* SelChanged takes the device from the item that is selected, and sets the button.
LEMMA SelChangedTyped ==
  ASSUME NEW v \in Window, v.sel \in DOMAIN v.items \cup {0}
  PROVE  LET u == SelChanged(v) IN
         /\ u \in Window /\ u.label = Label(u)
         /\ u.device = IF v.sel = 0 THEN NoDev ELSE v.items[v.sel]
         /\ Kept(u, v, {"device", "current", "replace", "wcid", "use_wcid", "wtype", "type",
                        "filter", "has_filter", "label"})
<1>. DEFINE device == IF v.sel = 0 THEN NoDev ELSE v.items[v.sel]
            replace == IF device = NoDev THEN v.replace ELSE device.driver # "none"
            chosen == [v EXCEPT !.device = device, !.current = v.sel, !.replace = replace]
            told == IF device = NoDev THEN [chosen EXCEPT !.wcid = "none"] ELSE ChooseWcid(chosen)
<1>1. SelChanged(v) = SetInstallButton(UpdateUi(told))
  BY DEF SelChanged
<1>2. device \in Rec /\ replace \in BOOLEAN /\ v.sel \in 0..Hw
  <2>1. device \in Rec
    <3>1. v.items \in Seq(Rec) /\ DOMAIN v.items = 1..Len(v.items)
      BY FieldsOf, LenProperties
    <3>. QED
      BY <3>1, NoDevTyped, ElementOfSeq
  <2>2. replace \in BOOLEAN
    BY FlagsOf
  <2>. QED
    BY <2>1, <2>2, FieldsOf
<1>. HIDE DEF device, replace
<1>3. chosen \in Window /\ Kept(chosen, v, {"device", "current", "replace"})
      /\ chosen.device = device
  <2>1. [v EXCEPT !.device = device] \in Window
    BY <1>2, SetDevices
  <2>2. [v EXCEPT !.device = device, !.current = v.sel] \in Window
    BY <1>2, <2>1, SetNumbers
  <2>3. chosen \in Window
    BY <1>2, <2>2, SetFlags
  <2>. QED
    BY <2>3, FieldNames DEF Fields, Kept
<1>. HIDE DEF chosen
<1>4. told \in Window /\ Kept(told, chosen, {"wcid", "use_wcid", "wtype", "type"})
  <2>1. CASE device = NoDev
    <3>1. told = [chosen EXCEPT !.wcid = "none"]
      BY <2>1
    <3>. QED
      BY <1>3, <3>1, SetNames, FieldNames DEF Fields, Kept
  <2>2. CASE device # NoDev
    BY <1>3, <2>2, WcidTyped
  <2>. QED
    BY <2>1, <2>2
<1>. HIDE DEF told
<1>5. UpdateUi(told) \in Window /\ Kept(UpdateUi(told), told, {"filter", "has_filter"})
  BY <1>4, UiTyped
<1>6. /\ SelChanged(v) \in Window /\ SelChanged(v).label = Label(SelChanged(v))
      /\ Kept(SelChanged(v), UpdateUi(told), {"label"})
  BY <1>1, <1>5, ButtonTyped
<1>7. SelChanged(v).device = device
  BY <1>3, <1>4, <1>5, <1>6 DEF Kept, Fields
<1>8. Kept(SelChanged(v), v, {"device", "current", "replace", "wcid", "use_wcid", "wtype", "type",
                              "filter", "has_filter", "label"})
  BY <1>3, <1>4, <1>5, <1>6 DEF Kept
<1>. QED
  BY <1>6, <1>7, <1>8 DEF device

\* Messages that are added to a queue one after the other.
LEMMA Joined ==
  ASSUME NEW q \in Seq(Messages), NEW r \in Seq(Messages)
  PROVE  q \o r \in Seq(Messages) /\ Range(q \o r) = Range(q) \cup Range(r)
<1>1. /\ q \o r \in Seq(Messages) /\ Len(q \o r) = Len(q) + Len(r)
      /\ \A i \in 1..(Len(q) + Len(r)) : (q \o r)[i] = IF i <= Len(q) THEN q[i] ELSE r[i - Len(q)]
      /\ Len(q) \in Nat /\ Len(r) \in Nat
  BY ConcatProperties, LenProperties
<1>2. /\ Range(q) = {q[i] : i \in 1..Len(q)} /\ Range(r) = {r[i] : i \in 1..Len(r)}
      /\ Range(q \o r) = {(q \o r)[i] : i \in 1..(Len(q) + Len(r))}
  BY <1>1, RangeEquality
<1>3. \A i \in 1..Len(q) : i \in 1..(Len(q) + Len(r)) /\ (q \o r)[i] = q[i]
  BY <1>1
<1>4. \A i \in 1..Len(r) : i + Len(q) \in 1..(Len(q) + Len(r)) /\ (q \o r)[i + Len(q)] = r[i]
  BY <1>1
<1>5. \A i \in 1..(Len(q) + Len(r)) : (q \o r)[i] \in Range(q) \cup Range(r)
  <2>. SUFFICES ASSUME NEW i \in 1..(Len(q) + Len(r))
                PROVE  (q \o r)[i] \in Range(q) \cup Range(r)
    OBVIOUS
  <2>1. CASE i <= Len(q)
    BY <1>1, <1>2, <2>1
  <2>2. CASE ~(i <= Len(q))
    <3>1. i - Len(q) \in 1..Len(r)
      BY <1>1, <2>2
    <3>. QED
      BY <1>1, <1>2, <2>2, <3>1
  <2>. QED
    BY <2>1, <2>2
<1>6. \A x \in Range(q) \cup Range(r) : x \in Range(q \o r)
  BY <1>2, <1>3, <1>4
<1>7. \A x \in Range(q \o r) : x \in Range(q) \cup Range(r)
  BY <1>2, <1>5
<1>. QED
  BY <1>1, <1>6, <1>7

\* A box that is put on a stack, or taken off it.
LEMMA Stacked ==
  ASSUME NEW s \in Seq(Frame)
  PROVE  /\ DOMAIN s = 1..Len(s) /\ Len(s) \in Nat /\ (s = <<>> <=> Len(s) = 0)
         /\ \A f \in Frame : /\ Append(s, f) \in Seq(Frame) /\ Len(Append(s, f)) = Len(s) + 1
                             /\ Append(s, f)[Len(s) + 1] = f
                             /\ \A i \in 1..Len(s) : Append(s, f)[i] = s[i]
         /\ s # <<>> => /\ Front(s) \in Seq(Frame) /\ Len(Front(s)) = Len(s) - 1
                        /\ \A i \in 1..(Len(s) - 1) : Front(s)[i] = s[i]
                        /\ Last(s) = s[Len(s)] /\ Last(s) \in Frame
<1>1. DOMAIN s = 1..Len(s) /\ Len(s) \in Nat /\ (s = <<>> <=> Len(s) = 0)
  BY LenProperties, EmptySeq
<1>2. ASSUME NEW f \in Frame
      PROVE  /\ Append(s, f) \in Seq(Frame) /\ Len(Append(s, f)) = Len(s) + 1
             /\ Append(s, f)[Len(s) + 1] = f
             /\ \A i \in 1..Len(s) : Append(s, f)[i] = s[i]
  BY AppendProperties
<1>3. ASSUME s # <<>>
      PROVE  /\ Front(s) \in Seq(Frame) /\ Len(Front(s)) = Len(s) - 1
             /\ \A i \in 1..(Len(s) - 1) : Front(s)[i] = s[i]
             /\ Last(s) = s[Len(s)] /\ Last(s) \in Frame
  <2>1. Len(s) \in Nat \ {0} /\ \A i \in 1..Len(s) : s[i] \in Frame
    BY <1>1, <1>3, ElementOfSeq
  <2>2. /\ SubSeq(s, 1, Len(s) - 1) \in Seq(Frame)
        /\ Len(SubSeq(s, 1, Len(s) - 1)) = Len(s) - 1
        /\ \A i \in 1..(Len(s) - 1) : SubSeq(s, 1, Len(s) - 1)[i] = s[i]
    <3>. DEFINE n == Len(s) - 1
    <3>1. n \in Int /\ 1 \in Int /\ \A i \in 1..n : s[i] \in Frame
      BY <2>1
    <3>2. /\ SubSeq(s, 1, n) \in Seq(Frame)
          /\ Len(SubSeq(s, 1, n)) = IF 1 <= n THEN n - 1 + 1 ELSE 0
          /\ \A i \in 1..(n - 1 + 1) : SubSeq(s, 1, n)[i] = s[1 + i - 1]
      <4>. HIDE DEF n
      <4>. QED
        BY <3>1, SubSeqProperties
    <3>3. (IF 1 <= n THEN n - 1 + 1 ELSE 0) = n /\ n - 1 + 1 = n
      BY <2>1
    <3>4. \A i \in 1..n : 1 + i - 1 = i
      OBVIOUS
    <3>. QED
      BY <3>2, <3>3, <3>4
  <2>. QED
    BY <2>1, <2>2 DEF Front, Last
<1>. QED
  BY <1>1, <1>2, <1>3

\* A bound that is spent.
LEMMA Spent ==
  ASSUME NEW b \in Budget, NEW what \in {"clicks", "changes", "faults", "checks", "loads"},
         b[what] > 0
  PROVE  [b EXCEPT ![what] = @ - 1] \in Budget
  <1>1. /\ b.clicks \in Nat /\ b.changes \in Nat /\ b.faults \in Nat
        /\ b.checks \in Nat /\ b.loads \in Nat /\ {b.exit, b.extract, b.all, b.hubs} \subseteq BOOLEAN
    BY DEF Budget
  <1>2. b[what] \in Nat
    BY <1>1
  <1>3. b[what] - 1 \in Nat
    BY <1>2
  <1>. HIDE DEF Budget
  <1>4. \A n \in Nat : [b EXCEPT ![what] = n] \in Budget
    <2>. SUFFICES ASSUME NEW n \in Nat PROVE [b EXCEPT ![what] = n] \in Budget
      OBVIOUS
    <2>1. CASE what = "clicks"
      BY <2>1 DEF Budget
    <2>2. CASE what = "changes"
      BY <2>2 DEF Budget
    <2>3. CASE what = "faults"
      BY <2>3 DEF Budget
    <2>4. CASE what = "checks"
      BY <2>4 DEF Budget
    <2>5. CASE what = "loads"
      BY <2>5 DEF Budget
    <2>. QED
      BY <2>1, <2>2, <2>3, <2>4, <2>5
  <1>. QED
    BY <1>3, <1>4

--------------------------------------------------------------------------------
(* The user interface.                                                          *)

\* A message is in the queue.
Posted(m) == m \in Range(queue)

\* The boxes that an installation shows.
Busy == {"filter", "system", "install"}

\* The boxes of an installation are under all others, and there while it runs; a refresh is
\* not posted to it, nor by a box that asks for one.
Framed ==
  /\ \A i \in DOMAIN stack : /\ stack[i].kind \in Busy => i = 1
                             /\ stack[i].kind = "event" => ~w.installing
  /\ w.installing <=> (stack # <<>> /\ stack[1].kind \in Busy)
  /\ w.installing => ~Posted("refresh")

\* The drop-down list shows the list of devices, or nothing.
ListShown ==
  /\ Len(w.list) <= Hw /\ w.sel \in DOMAIN w.items \cup {0}
  /\ w.items = w.list \/ (w.items = <<>> /\ w.device = NoDev /\ ~w.editing)

\* The device and the button agree with what is selected, when nothing is posted that is
\* going to make them agree.
DeviceShown ==
  ~Posted("refresh") /\ ~Posted("selchange") =>
    /\ w.device # NoDev /\ "jumped" \notin odd => w.sel # 0 /\ w.device = w.items[w.sel]
    /\ w.label = Label(w)

\* So do the mode and the edit.
EditShown ==
  /\ w.create = w.menu
  /\ w.edit # NoDev /\ "left" \notin odd /\ ~Posted("refresh") =>
       w.editing /\ w.editbox /\ w.edit = w.device /\ ~Posted("selchange")

\* What the window and the boxes of an installation refer to is allocated.
Lives(v) == v = NoDev \/ v.gen \in alive
Allocated ==
  /\ Posted("cancel") => "closing" \in odd
  /\ odd \cap {"refused", "closing"} = {} =>
       /\ ~bad /\ Freed(w.list) \subseteq alive
       /\ Lives(w.device) /\ Lives(w.edit)
       /\ \A i \in DOMAIN stack :
            stack[i].kind \in Busy /\ ~stack[i].own => Lives(stack[i].dev)

\* The types of the variables besides the window.
Others ==
  /\ queue \in Seq(Messages) /\ stack \in Seq(Frame)
  /\ thid \in BOOLEAN /\ delay \in BOOLEAN
  /\ world \in World /\ alive \subseteq Nat \ {0} /\ IsFiniteSet(alive)
  /\ bad \in BOOLEAN /\ odd \subseteq Oddity /\ left \in Budget

\* The inductive invariant of the user interface.
UiInv ==
  w \in Window /\ Others /\ Framed /\ ListShown /\ DeviceShown /\ EditShown /\ Allocated

\* What neither the properties of the window nor the button depend on.
Unseen == {"from_install", "installing", "hwid", "current", "hubs", "all", "found", "wtype"}

\* What the window shows still agrees when it stays, and no less is posted.
LEMMA ViewKept ==
  ASSUME ListShown, DeviceShown, EditShown, Kept(w', w, Unseen),
         odd \cap {"jumped", "left"} \subseteq odd', Posted("refresh") => Posted("refresh")',
         Posted("refresh")' \/ (Posted("selchange")' <=> Posted("selchange"))
  PROVE  ListShown' /\ DeviceShown' /\ EditShown'
<1>1. /\ w'.list = w.list /\ w'.sel = w.sel /\ w'.items = w.items /\ w'.device = w.device
      /\ w'.editing = w.editing /\ w'.label = w.label /\ w'.create = w.create
      /\ w'.menu = w.menu /\ w'.edit = w.edit /\ w'.editbox = w.editbox
  BY DEF Kept, Fields, Unseen
<1>2. LabelParts(w') = LabelParts(w)
  BY DEF Kept, Fields, Unseen, LabelParts
<1>3. Label(w') = Label(w)
  BY <1>2, LabelDepends
<1>4. ListShown'
  BY <1>1 DEF ListShown
<1>5. DeviceShown'
  BY <1>1, <1>3 DEF DeviceShown
<1>6. EditShown'
  BY <1>1 DEF EditShown
<1>. QED
  BY <1>4, <1>5, <1>6

\* The boxes of an installation that are there after a step refer to what those before it did,
\* or to the device of the window.
Referring ==
  \A i \in DOMAIN stack' : stack'[i].kind \in Busy /\ ~stack'[i].own =>
    \/ stack'[i].dev \in {NoDev, w.device}
    \/ \E j \in DOMAIN stack : /\ stack[j].kind \in Busy /\ ~stack[j].own
                               /\ stack'[i].dev = stack[j].dev

\* Nothing that is freed comes to be referred to.
LEMMA AllocKept ==
  ASSUME Allocated, alive' = alive, odd \cap {"refused", "closing"} \subseteq odd',
         bad' = bad \/ odd \cap {"refused", "closing"} # {},
         Posted("cancel")' => Posted("cancel") \/ "closing" \in odd', Referring,
         w'.list = w.list, w'.device \in {w.device, NoDev},
         w'.edit \in {w.edit, w.device, NoDev}
  PROVE  Allocated'
<1>1. Posted("cancel")' => "closing" \in odd'
  BY DEF Allocated
<1>2. ASSUME odd' \cap {"refused", "closing"} = {}
      PROVE  /\ ~bad' /\ Freed(w.list)' \subseteq alive'
             /\ Lives(w.device)' /\ Lives(w.edit)'
             /\ \A i \in DOMAIN stack' :
                  stack'[i].kind \in Busy /\ ~stack'[i].own => Lives(stack'[i].dev)
  <2>1. /\ ~bad /\ Freed(w.list) \subseteq alive /\ Lives(w.device) /\ Lives(w.edit)
        /\ \A i \in DOMAIN stack :
             stack[i].kind \in Busy /\ ~stack[i].own => Lives(stack[i].dev)
    BY <1>2 DEF Allocated
  <2>2. Lives(NoDev)
    BY DEF Lives
  <2>3. Freed(w.list)' = Freed(w.list)
    BY DEF Freed
  <2>4. Lives(w.device)' /\ Lives(w.edit)'
    BY <2>1, <2>2 DEF Lives
  <2>5. \A i \in DOMAIN stack' :
          stack'[i].kind \in Busy /\ ~stack'[i].own => Lives(stack'[i].dev)
    BY <2>1, <2>2 DEF Referring
  <2>6. bad' = bad
    BY <1>2
  <2>. QED
    BY <2>1, <2>3, <2>4, <2>5, <2>6
<1>. QED
  BY <1>1, <1>2 DEF Allocated, Lives

\* A box that has nothing to do with an installation is opened or closed, or none is.
StackCalm ==
  \/ stack' = stack
  \/ \E f \in Frame : /\ f.kind \notin Busy /\ (f.kind = "event" => ~w.installing)
                      /\ stack' = Append(stack, f)
  \/ stack # <<>> /\ Top.kind \notin Busy /\ stack' = Front(stack)

\* What is known of the boxes survives that.
LEMMA CalmFrames ==
  ASSUME stack \in Seq(Frame), Framed, StackCalm, w'.installing = w.installing,
         w.installing => ~Posted("refresh")'
  PROVE  stack' \in Seq(Frame) /\ Framed' /\ Referring
<1>1. /\ DOMAIN stack = 1..Len(stack) /\ Len(stack) \in Nat /\ (stack = <<>> <=> Len(stack) = 0)
  BY Stacked
<1>2. CASE stack' = stack
  BY <1>2 DEF Framed, Referring
<1>3. ASSUME NEW f \in Frame, f.kind \notin Busy, f.kind = "event" => ~w.installing,
             stack' = Append(stack, f)
      PROVE  stack' \in Seq(Frame) /\ Framed' /\ Referring
  <2>1. /\ stack' \in Seq(Frame) /\ Len(stack') = Len(stack) + 1 /\ stack'[Len(stack) + 1] = f
        /\ \A i \in 1..Len(stack) : stack'[i] = stack[i]
    BY <1>3, Stacked
  <2>2. DOMAIN stack' = 1..(Len(stack) + 1) /\ stack' # <<>>
    BY <1>1, <2>1, Stacked
  <2>3. \A i \in DOMAIN stack' : i \in DOMAIN stack \/ i = Len(stack) + 1
    BY <1>1, <2>2
  <2>4. \A i \in DOMAIN stack' : /\ stack'[i].kind \in Busy => i \in DOMAIN stack /\ stack'[i] = stack[i]
                                 /\ stack'[i].kind = "event" => ~w.installing
    BY <1>1, <1>3, <2>1, <2>3 DEF Framed
  <2>5. stack' # <<>> /\ stack'[1].kind \in Busy <=> stack # <<>> /\ stack[1].kind \in Busy
    <3>1. CASE stack = <<>>
      <4>1. stack'[1] = f
        BY <1>1, <2>1, <3>1
      <4>. QED
        BY <1>3, <3>1, <4>1
    <3>2. CASE stack # <<>>
      <4>1. 1 \in 1..Len(stack)
        BY <1>1, <3>2
      <4>. QED
        BY <2>1, <2>2, <3>2, <4>1
    <3>. QED
      BY <3>1, <3>2
  <2>. QED
    BY <2>1, <2>4, <2>5 DEF Framed, Referring
<1>4. ASSUME stack # <<>>, Top.kind \notin Busy, stack' = Front(stack)
      PROVE  stack' \in Seq(Frame) /\ Framed' /\ Referring
  <2>1. /\ stack' \in Seq(Frame) /\ Len(stack') = Len(stack) - 1 /\ Top = stack[Len(stack)]
        /\ \A i \in 1..(Len(stack) - 1) : stack'[i] = stack[i]
    BY <1>4, Stacked DEF Top
  <2>2. DOMAIN stack' = 1..(Len(stack) - 1) /\ (stack' = <<>> <=> Len(stack) - 1 = 0)
    BY <2>1, Stacked
  <2>3. \A i \in DOMAIN stack' : i \in DOMAIN stack /\ stack'[i] = stack[i]
    BY <1>1, <2>1, <2>2
  <2>4. stack' # <<>> /\ stack'[1].kind \in Busy <=> stack # <<>> /\ stack[1].kind \in Busy
    <3>1. CASE Len(stack) = 1
      BY <1>4, <2>1, <2>2, <3>1
    <3>2. CASE Len(stack) # 1
      <4>1. 1 \in 1..(Len(stack) - 1)
        BY <1>1, <1>4, <3>2
      <4>. QED
        BY <1>4, <2>1, <2>2, <4>1
    <3>. QED
      BY <3>1, <3>2
  <2>. QED
    BY <2>1, <2>3, <2>4 DEF Framed, Referring
<1>. QED
  BY <1>2, <1>3, <1>4 DEF StackCalm

\* What the messages that are posted by a step, or handled by it, may be while the window
\* stays as it is.
QueueCalm ==
  /\ queue' \in Seq(Messages)
  /\ Posted("refresh") => Posted("refresh")'
  /\ Posted("refresh")' => Posted("refresh") \/ ~w.installing
  /\ Posted("selchange")' <=> Posted("selchange")
  /\ Posted("cancel")' => Posted("cancel") \/ "closing" \in odd'

\* Steps that leave the window alone, and open or close a box at most.
Besides ==
  /\ w' = w /\ alive' = alive /\ bad' = bad /\ odd \subseteq odd' /\ odd' \subseteq Oddity
  /\ thid' \in BOOLEAN /\ delay' \in BOOLEAN /\ world' \in World /\ left' \in Budget
  /\ QueueCalm /\ StackCalm

\* They keep the invariant.
LEMMA BesidesStep ==
  ASSUME UiInv, Besides
  PROVE  UiInv'
<1>1. /\ w \in Window /\ Others /\ Framed /\ ListShown /\ DeviceShown /\ EditShown /\ Allocated
  BY DEF UiInv
<1>2. w' = w /\ w'.installing = w.installing /\ Kept(w', w, Unseen)
  BY DEF Besides, Kept
<1>3. stack' \in Seq(Frame) /\ Framed' /\ Referring
  BY <1>1, <1>2, CalmFrames DEF Besides, Others, QueueCalm, Framed
<1>4. ListShown' /\ DeviceShown' /\ EditShown'
  <2>1. odd \cap {"jumped", "left"} \subseteq odd'
    BY DEF Besides
  <2>. QED
    BY <1>1, <1>2, <2>1, ViewKept DEF Besides, QueueCalm
<1>5. Allocated'
  <2>1. odd \cap {"refused", "closing"} \subseteq odd'
    BY DEF Besides
  <2>. QED
    BY <1>1, <1>2, <1>3, <2>1, AllocKept DEF Besides, QueueCalm
<1>6. Others'
  BY <1>1, <1>3 DEF Besides, QueueCalm, Others
<1>. QED
  BY <1>1, <1>2, <1>3, <1>4, <1>5, <1>6 DEF UiInv

\* A message that is posted and is not one that the window waits for.
LEMMA PostCalm ==
  ASSUME queue \in Seq(Messages), NEW m \in Messages \ {"refresh", "selchange", "cancel"},
         queue' = Post(m)
  PROVE  QueueCalm
<1>1. queue' \in Seq(Messages) /\ Range(queue') = Range(queue) \cup {m}
  BY Queued DEF Post
<1>. QED
  BY <1>1 DEF QueueCalm, Posted

\* A message that is handled,
LEMMA HandleCalm ==
  ASSUME queue \in Seq(Messages), NEW m \in Messages \ {"refresh", "selchange"},
         Handle(m), queue' = Rest
  PROVE  QueueCalm
<1>1. queue' \in Seq(Messages) /\ Range(queue) = Range(queue') \cup {m}
  BY Queued DEF Handle, Rest
<1>. QED
  BY <1>1 DEF QueueCalm, Posted

\* or none.
LEMMA SameCalm ==
  ASSUME queue \in Seq(Messages), queue' = queue
  PROVE  QueueCalm
  BY DEF QueueCalm, Posted

\* A box of another kind is opened.
LEMMA OpenCalm ==
  ASSUME NEW kind \in {"event", "notice", "file", "settings"}, kind = "event" => ~w.installing,
         stack' = Push(kind, NoDev, FALSE, FALSE)
  PROVE  StackCalm
<1>. DEFINE f == [kind |-> kind, dev |-> NoDev, own |-> FALSE, ok |-> FALSE]
<1>1. f \in Frame /\ f.kind = kind
  BY NoDevTyped DEF Frame
<1>2. stack' = Append(stack, f)
  BY DEF Push
<1>. HIDE DEF f
<1>. QED
  BY <1>1, <1>2 DEF StackCalm, Busy

\* A box that does not belong to an installation is closed.
LEMMA CloseCalm ==
  ASSUME stack # <<>>, Top.kind \notin Busy, stack' = Front(stack)
  PROVE  StackCalm
  BY DEF StackCalm

\* What is spent leaves a budget.
LEMMA SpendTyped ==
  ASSUME left \in Budget, NEW what \in {"clicks", "changes", "faults", "checks", "loads"},
         Spend(what)
  PROVE  left' \in Budget
  BY Spent DEF Spend

\* The messages that leave the window alone.
LEMMA CalmMessages ==
  ASSUME UiInv, DeviceChange \/ DelayEnds \/ Close \/ NoUpdate \/ (DeviceEvent /\ w.installing)
  PROVE  Besides
<1>1. Others
  BY DEF UiInv
<1>2. CASE DeviceChange
  <2>1. QueueCalm
    BY <1>1, <1>2, HandleCalm DEF DeviceChange, Others, Messages
  <2>2. left' \in Budget
    BY <1>1, <1>2, SpendTyped DEF DeviceChange, Others
  <2>. QED
    BY <1>1, <1>2, <2>1, <2>2 DEF DeviceChange, Besides, Others, StackCalm, Oddity
<1>3. CASE DelayEnds
  <2>1. QueueCalm
    BY <1>1, <1>3, PostCalm DEF DelayEnds, Others, Messages
  <2>. QED
    BY <1>1, <1>3, <2>1 DEF DelayEnds, Besides, Others, StackCalm
<1>4. CASE Close
  <2>1. /\ Rest \in Seq(Messages) /\ Range(queue) = Range(Rest) \cup {"close"}
        /\ queue' \in Seq(Messages) /\ Range(queue') = Range(Rest) \cup {"cancel"}
    <3>1. Rest \in Seq(Messages) /\ Range(queue) = Range(Rest) \cup {"close"}
      BY <1>1, <1>4, Queued DEF Close, Handle, Rest, Others
    <3>. HIDE DEF Rest
    <3>2. "cancel" \in Messages
      BY DEF Messages
    <3>3. queue' = Append(Rest, "cancel")
      BY <1>4 DEF Close
    <3>. QED
      BY <3>1, <3>2, <3>3, Queued
  <2>2. "closing" \in odd' /\ odd \subseteq odd' /\ odd' \subseteq Oddity
    BY <1>1, <1>4 DEF Close, Others, Oddity
  <2>3. QueueCalm
    <3>. HIDE DEF Rest
    <3>. QED
      BY <2>1, <2>2 DEF QueueCalm, Posted
  <2>. QED
    BY <1>1, <1>4, <2>2, <2>3 DEF Close, Besides, Others, StackCalm
<1>5. CASE NoUpdate
  <2>1. QueueCalm
    BY <1>1, <1>5, HandleCalm DEF NoUpdate, Others, Messages
  <2>2. StackCalm
    BY <1>5, OpenCalm DEF NoUpdate
  <2>. QED
    BY <1>1, <1>5, <2>1, <2>2 DEF NoUpdate, Besides, Others
<1>6. CASE DeviceEvent /\ w.installing
  <2>1. /\ queue' = Rest /\ Handle("deviceevent") /\ odd' = odd \cup {"dropped"}
        /\ UNCHANGED <<thid, stack, w, delay, world, alive, bad, left>>
    BY <1>6 DEF DeviceEvent
  <2>2. QueueCalm
    BY <1>1, <2>1, HandleCalm DEF Others, Messages
  <2>. QED
    BY <1>1, <2>1, <2>2 DEF Besides, Others, StackCalm, Oddity
<1>. QED
  BY <1>2, <1>3, <1>4, <1>5, <1>6

\* A notification that the devices have changed posts a refresh, or asks.
LEMMA EventCalm ==
  ASSUME UiInv, DeviceEvent, ~w.installing
  PROVE  Besides
<1>1. Others
  BY DEF UiInv
<1>2. /\ Handle("deviceevent") /\ thid' = FALSE
      /\ UNCHANGED <<w, delay, world, alive, bad, odd, left>>
      /\ \/ stack' = Push("event", NoDev, FALSE, FALSE) /\ queue' = Rest
         \/ queue' = Append(Rest, "refresh") /\ stack' = stack
  BY DEF DeviceEvent
<1>3. Rest \in Seq(Messages) /\ Range(queue) = Range(Rest) \cup {"deviceevent"}
  BY <1>1, <1>2, Queued DEF Handle, Rest, Others
<1>4. CASE stack' = Push("event", NoDev, FALSE, FALSE) /\ queue' = Rest
  <2>1. QueueCalm
    BY <1>1, <1>2, <1>4, HandleCalm DEF Others, Messages
  <2>2. StackCalm
    BY <1>4, OpenCalm
  <2>. QED
    BY <1>1, <1>2, <2>1, <2>2 DEF Besides, Others
<1>5. CASE queue' = Append(Rest, "refresh") /\ stack' = stack
  <2>1. "refresh" \in Messages
    BY DEF Messages
  <2>2. queue' \in Seq(Messages) /\ Range(queue') = Range(Rest) \cup {"refresh"}
    <3>. HIDE DEF Rest
    <3>. QED
      BY <1>3, <1>5, <2>1, Queued
  <2>3. QueueCalm
    <3>. HIDE DEF Rest
    <3>. QED
      BY <1>3, <2>2 DEF QueueCalm, Posted
  <2>. QED
    BY <1>1, <1>2, <1>5, <2>3 DEF Besides, Others, StackCalm
<1>. QED
  BY <1>2, <1>4, <1>5

\* Boxes that are opened or closed, and devices that come or go.
LEMMA CalmBoxes ==
  ASSUME UiInv,
         \/ NoticeClosed \/ OpenClicked \/ CloseClicked
         \/ Plugged \/ SettingsOpened \/ SettingsClosed
  PROVE  Besides
<1>1. Others
  BY DEF UiInv
<1>2. CASE NoticeClosed
  <2>1. QueueCalm
    BY <1>1, <1>2, PostCalm, SameCalm DEF NoticeClosed, Others, Messages
  <2>2. StackCalm
    BY <1>2, CloseCalm DEF NoticeClosed, Busy
  <2>. QED
    BY <1>1, <1>2, <2>1, <2>2 DEF NoticeClosed, Besides, Others
<1>3. CASE OpenClicked \/ SettingsOpened
  <2>1. QueueCalm /\ left' \in Budget
    BY <1>1, <1>3, SameCalm, SpendTyped DEF OpenClicked, SettingsOpened, Others
  <2>2. StackCalm
    BY <1>3, OpenCalm DEF OpenClicked, SettingsOpened
  <2>. QED
    BY <1>1, <1>3, <2>1, <2>2 DEF OpenClicked, SettingsOpened, Besides, Others
<1>4. CASE CloseClicked
  <2>1. queue = <<>> /\ queue' = <<"close">> /\ UNCHANGED <<w, stack, thid, delay, world, alive,
        bad, odd>>
    BY <1>4 DEF CloseClicked, Click, CanInput, Calm
  <2>2. queue' = Post("close")
    BY <2>1 DEF Post
  <2>3. QueueCalm
    BY <1>1, <2>2, PostCalm DEF Others, Messages
  <2>4. left' \in Budget
    BY <1>1, <1>4, SpendTyped DEF CloseClicked, Click, Others
  <2>. QED
    BY <1>1, <2>1, <2>3, <2>4 DEF Besides, Others, StackCalm
<1>5. CASE Plugged
  <2>1. PICK n \in 1..2 : queue' = queue \o [i \in 1..n |-> "devicechange"]
    BY <1>5 DEF Plugged
  <2>. DEFINE more == [i \in 1..n |-> "devicechange"]
  <2>2. more \in Seq(Messages) /\ \A x \in Range(more) : x = "devicechange"
    BY DEF Messages, Range
  <2>3. queue' \in Seq(Messages) /\ Range(queue') = Range(queue) \cup Range(more)
    <3>. HIDE DEF more
    <3>1. queue' = queue \o more
      BY <2>1 DEF more
    <3>. QED
      BY <1>1, <2>2, <3>1, Joined DEF Others
  <2>4. QueueCalm
    <3>. HIDE DEF more
    <3>. QED
      BY <2>2, <2>3 DEF QueueCalm, Posted
  <2>5. world' \in World
    <3>1. PICK h \in 1..Hw : world' = [world EXCEPT ![h].plugged = ~@]
      BY <1>5 DEF Plugged
    <3>2. world \in World
      BY <1>1 DEF Others
    <3>. QED
      BY <3>1, <3>2 DEF World
  <2>6. left' \in Budget
    BY <1>1, <1>5, SpendTyped DEF Plugged, Others
  <2>. QED
    BY <1>1, <1>5, <2>4, <2>5, <2>6 DEF Plugged, Besides, Others, StackCalm
<1>6. CASE SettingsClosed
  <2>1. QueueCalm
    BY <1>1, <1>6, SameCalm DEF SettingsClosed, Others
  <2>2. StackCalm
    BY <1>6, CloseCalm DEF SettingsClosed, Busy
  <2>. QED
    BY <1>1, <1>6, <2>1, <2>2 DEF SettingsClosed, Besides, Others
<1>. QED
  BY <1>2, <1>3, <1>4, <1>5, <1>6

\* The steps of the check and of the download disturb the window no more.
LEMMA CalmThreads ==
  ASSUME UiInv,
         \/ CheckNow \/ DownloadClicked \/ AbortClicked \/ LaunchClicked
         \/ \E c \in Checker : Checking(c) \/ DialogClosed(c) \/ Launched(c)
         \/ \E d \in Loader : Downloading(d)
  PROVE  Besides
<1>1. Others
  BY DEF UiInv
<1>2. /\ UNCHANGED <<w, stack, thid, delay, world, alive, bad, odd>>
      /\ queue' \in {queue, Post("noupdate"), Post("close")}
      /\ left' = left \/ Spend("checks") \/ Spend("loads") \/ Spend("faults")
  BY DEF CheckNow, DownloadClicked, AbortClicked, LaunchClicked, Checking, CheckStarts, Waited,
     Queried, Shown, Answered, CheckClears, CheckEnds, DialogClosed, Launched, Downloading,
     LoadStarts, LoadCreates, LoadReads, LoadTells, LoadCloses, LoadUnlinks, Unwatched, uiVars
<1>3. QueueCalm
  BY <1>1, <1>2, PostCalm, SameCalm DEF Others, Messages
<1>4. left' \in Budget
  BY <1>1, <1>2, SpendTyped DEF Others
<1>. QED
  BY <1>1, <1>2, <1>3, <1>4 DEF Besides, Others, StackCalm

\* What is known when the innermost box belongs to an installation: it is the only one.
LEMMA Installing ==
  ASSUME Others, Framed, stack # <<>>, Top.kind \in Busy
  PROVE  /\ w.installing /\ Front(stack) = <<>> /\ ~Posted("refresh")
         /\ Top \in Frame /\ Top = stack[1] /\ 1 \in DOMAIN stack
<1>1. /\ DOMAIN stack = 1..Len(stack) /\ Len(stack) \in Nat \ {0}
      /\ Front(stack) \in Seq(Frame) /\ Len(Front(stack)) = Len(stack) - 1
      /\ Top = stack[Len(stack)] /\ Top \in Frame
  BY Stacked DEF Others, Top
<1>2. Len(stack) = 1
  BY <1>1 DEF Framed
<1>3. Front(stack) = <<>>
  BY <1>1, <1>2, Stacked
<1>. QED
  BY <1>1, <1>2, <1>3 DEF Framed

\* One box alone.
LEMMA OneBox ==
  ASSUME NEW f \in Frame
  PROVE  /\ Append(<<>>, f) \in Seq(Frame) /\ Append(<<>>, f) # <<>>
         /\ DOMAIN Append(<<>>, f) = {1} /\ Append(<<>>, f)[1] = f
<1>1. <<>> \in Seq(Frame) /\ Len(<<>>) = 0
  BY EmptySeq
<1>2. /\ Append(<<>>, f) \in Seq(Frame) /\ Len(Append(<<>>, f)) = 1 /\ Append(<<>>, f)[1] = f
  BY <1>1, Stacked
<1>. QED
  BY <1>2, Stacked

\* The messages a step adds change nothing that the window waits for.
SameMessages(q, r) ==
  q \in Seq(Messages) /\ \A m \in {"refresh", "selchange", "cancel"} : m \in Range(q) <=> m \in Range(r)

\* The end of an installation, and the box that tells its result.
LEMMA Ended ==
  ASSUME Others, NEW v \in Window, NEW q \in Seq(Messages), NEW result \in BOOLEAN,
         EndInstall(v, <<>>, q, result)
  PROVE  /\ w' \in Window /\ Kept(w', v, {"from_install", "installing"}) /\ ~w'.installing
         /\ stack' \in Seq(Frame) /\ SameMessages(queue', q)
         /\ \A i \in DOMAIN stack' : stack'[i].kind = "notice"
<1>. DEFINE quit == result /\ left.exit /\ ~v.filter
            told == ~v.filter /\ (result => ~v.extract)
            f == [kind |-> "notice", dev |-> NoDev, own |-> FALSE, ok |-> quit]
<1>1. /\ w' = [v EXCEPT !.from_install = TRUE, !.installing = FALSE]
      /\ stack' = IF told THEN Append(<<>>, f) ELSE <<>>
      /\ queue' = IF quit /\ ~told THEN Append(q, "close") ELSE q
  BY DEF EndInstall
<1>2. w' \in Window /\ Kept(w', v, {"from_install", "installing"}) /\ ~w'.installing
  <2>1. [v EXCEPT !.from_install = TRUE] \in Window
    BY SetFlags
  <2>2. w' \in Window
    BY <1>1, <2>1, SetFlags
  <2>. QED
    BY <1>1, <2>2, FieldNames DEF Kept, Fields
<1>3. f \in Frame /\ f.kind = "notice"
  <2>1. quit \in BOOLEAN
    BY DEF Others, Budget
  <2>. QED
    BY <2>1, NoDevTyped DEF Frame
<1>. HIDE DEF f, quit, told
<1>4. stack' \in Seq(Frame) /\ \A i \in DOMAIN stack' : stack'[i].kind = "notice"
  <2>1. CASE told
    BY <1>1, <1>3, <2>1, OneBox
  <2>2. CASE ~told
    BY <1>1, <2>2, EmptySeq
  <2>. QED
    BY <2>1, <2>2
<1>5. SameMessages(queue', q)
  <2>1. "close" \in Messages
    BY DEF Messages
  <2>. QED
    BY <1>1, <2>1, Queued DEF SameMessages
<1>. QED
  BY <1>2, <1>4, <1>5

\* The window stays as it is for its user, and the boxes of the installation go or stay: what
\* is known of it survives, if what is known of the boxes does.
LEMMA InstallKeeps ==
  ASSUME UiInv, w' \in Window, Kept(w', w, Unseen), Others', Framed', Referring,
         SameMessages(queue', queue), alive' = alive, odd \ {"missed"} \subseteq odd',
         bad' = bad \/ odd \cap {"refused", "closing"} # {}
  PROVE  UiInv'
<1>1. ListShown /\ DeviceShown /\ EditShown /\ Allocated
  BY DEF UiInv
<1>2. /\ Posted("refresh")' <=> Posted("refresh")
      /\ Posted("selchange")' <=> Posted("selchange")
      /\ Posted("cancel")' <=> Posted("cancel")
  BY DEF SameMessages, Posted
<1>3. ListShown' /\ DeviceShown' /\ EditShown'
  <2>1. odd \cap {"jumped", "left"} \subseteq odd'
    OBVIOUS
  <2>. QED
    BY <1>1, <1>2, <2>1, ViewKept
<1>4. Allocated'
  <2>1. w'.list = w.list /\ w'.device = w.device /\ w'.edit = w.edit
    BY DEF Kept, Fields, Unseen
  <2>2. odd \cap {"refused", "closing"} \subseteq odd'
    OBVIOUS
  <2>. QED
    BY <1>1, <1>2, <2>1, <2>2, AllocKept
<1>. QED
  BY <1>3, <1>4 DEF UiInv

\* The installation ends.
LEMMA EndKeeps ==
  ASSUME UiInv, NEW v \in Window, Kept(v, w, {"installing"}), NEW result \in BOOLEAN,
         EndInstall(v, <<>>, queue, result), UNCHANGED <<thid, delay, world, alive, odd>>,
         bad' = bad \/ odd \cap {"refused", "closing"} # {}, bad' \in BOOLEAN, left' \in Budget
  PROVE  UiInv'
<1>1. Others /\ w \in Window
  BY DEF UiInv
<1>2. /\ w' \in Window /\ Kept(w', v, {"from_install", "installing"}) /\ ~w'.installing
      /\ stack' \in Seq(Frame) /\ SameMessages(queue', queue)
      /\ \A i \in DOMAIN stack' : stack'[i].kind = "notice"
  BY <1>1, Ended DEF Others
<1>3. Kept(w', w, Unseen)
  BY <1>2 DEF Kept, Unseen
<1>4. Framed' /\ Referring
  <2>1. stack' # <<>> => 1 \in DOMAIN stack'
    BY <1>2, Stacked
  <2>. QED
    BY <1>2, <2>1 DEF Framed, Referring, Busy
<1>5. Others'
  BY <1>1, <1>2 DEF Others, SameMessages
<1>. QED
  BY <1>2, <1>3, <1>4, <1>5, InstallKeeps

\* It goes on, with its next box.
LEMMA BoxKeeps ==
  ASSUME UiInv, w' \in Window, Kept(w', w, {"installing"}), w'.installing, queue' = queue,
         ~Posted("refresh"), NEW f \in Frame, f.kind \in Busy, stack' = Append(<<>>, f),
         \/ f.own \/ f.dev \in {NoDev, w.device}
         \/ \E j \in DOMAIN stack : /\ stack[j].kind \in Busy /\ ~stack[j].own
                                    /\ f.dev = stack[j].dev,
         UNCHANGED <<thid, delay, world, alive, odd>>,
         bad' = bad \/ odd \cap {"refused", "closing"} # {}, bad' \in BOOLEAN, left' \in Budget
  PROVE  UiInv'
<1>1. Others
  BY DEF UiInv
<1>2. stack' \in Seq(Frame) /\ stack' # <<>> /\ DOMAIN stack' = {1} /\ stack'[1] = f
  BY OneBox
<1>3. Framed'
  BY <1>2 DEF Framed, Posted, Busy
<1>4. Referring
  BY <1>2 DEF Referring
<1>5. SameMessages(queue', queue) /\ Others'
  BY <1>1, <1>2 DEF SameMessages, Others
<1>6. Kept(w', w, Unseen)
  BY DEF Kept, Unseen
<1>. QED
  BY <1>3, <1>4, <1>5, <1>6, InstallKeeps

\* IDC_INSTALL
LEMMA InstallClickedStep ==
  ASSUME UiInv, InstallClicked
  PROVE  UiInv'
<1>. DEFINE own == w.menu \/ w.use_wcid
            dev == IF own THEN NoDev ELSE w.device
            v == [w EXCEPT !.installing = TRUE]
            paid == [left EXCEPT !.clicks = @ - 1]
<1>1. Others /\ Framed /\ Allocated /\ w \in Window
  BY DEF UiInv
<1>2. /\ queue = <<>> /\ stack = <<>> /\ left.clicks > 0
      /\ bad' = (bad \/ w.device.gen \notin alive \cup {0})
      /\ UNCHANGED <<thid, delay, world, alive, odd>>
  BY DEF InstallClicked, CanInput
<1>3. paid \in Budget
  BY <1>1, <1>2, Spent DEF Others
<1>4. bad' \in BOOLEAN /\ (bad' = bad \/ odd \cap {"refused", "closing"} # {})
  <2>1. odd \cap {"refused", "closing"} = {} => w.device.gen \in alive \cup {0}
    BY <1>1 DEF Allocated, Lives, NoDev
  <2>2. bad \in BOOLEAN
    BY <1>1 DEF Others
  <2>. QED
    BY <1>2, <2>1, <2>2
<1>5. ~w.installing /\ ~Posted("refresh")
  BY <1>1, <1>2 DEF Framed, Posted, Range
<1>6. v \in Window /\ Kept(v, w, {"installing"}) /\ v.installing
  BY <1>1, SetFlags, FieldNames DEF Kept, Fields
<1>. HIDE DEF v, paid
<1>7. CASE /\ stack' = IF w.filter THEN stack ELSE Push("notice", NoDev, FALSE, FALSE)
           /\ left' = paid /\ UNCHANGED <<w, queue>>
  <2>1. stack' \in Seq(Frame) /\ Framed' /\ Referring
    <3>1. StackCalm
      BY <1>7, OpenCalm DEF StackCalm
    <3>. QED
      BY <1>1, <1>5, <1>7, <3>1, CalmFrames DEF Others, Posted
  <2>2. Others' /\ SameMessages(queue', queue) /\ Kept(w', w, Unseen)
    BY <1>1, <1>2, <1>3, <1>4, <1>7, <2>1 DEF Others, SameMessages, Kept
  <2>3. w' \in Window
    BY <1>1, <1>7
  <2>. QED
    BY <1>2, <1>4, <2>1, <2>2, <2>3, InstallKeeps
<1>8. CASE /\ left.faults > 0 /\ left' = [paid EXCEPT !.faults = @ - 1]
           /\ EndInstall(v, stack, queue, FALSE)
  <2>1. left' \in Budget
    <3>1. paid.faults = left.faults
      BY <1>1, <1>2 DEF paid, Others, Budget
    <3>. QED
      BY <1>3, <1>8, <3>1, Spent
  <2>. QED
    BY <1>2, <1>4, <1>6, <1>8, <2>1, EndKeeps
<1>9. CASE /\ left' = paid /\ queue' = queue /\ w' = v
           /\ stack' = Push("filter", dev, own, w.filter /\ ~w.has_filter)
  <2>. DEFINE f == [kind |-> "filter", dev |-> dev, own |-> own, ok |-> w.filter /\ ~w.has_filter]
  <2>1. f \in Frame /\ f.kind \in Busy /\ f.dev \in {NoDev, w.device}
    <3>1. dev \in Rec /\ dev \in {NoDev, w.device}
      BY <1>1, FieldsOf, NoDevTyped
    <3>2. own \in BOOLEAN /\ (w.filter /\ ~w.has_filter) \in BOOLEAN
      BY <1>1, FlagsOf
    <3>. QED
      BY <3>1, <3>2 DEF Frame, Busy
  <2>2. stack' = Append(<<>>, f)
    BY <1>2, <1>9 DEF Push
  <2>. HIDE DEF f
  <2>. QED
    BY <1>2, <1>3, <1>4, <1>5, <1>6, <1>9, <2>1, <2>2, BoxKeeps
<1>. QED
  BY <1>7, <1>8, <1>9 DEF InstallClicked, v, paid

\* The warnings.
LEMMA WarnedStep ==
  ASSUME UiInv, Warned \/ SystemWarned
  PROVE  UiInv'
<1>1. Others /\ Framed /\ w \in Window
  BY DEF UiInv
<1>2. /\ stack # <<>> /\ Top.kind \in Busy /\ UNCHANGED <<thid, delay, world, alive, bad, odd>>
  BY DEF Warned, SystemWarned, Busy
<1>3. /\ w.installing /\ Front(stack) = <<>> /\ ~Posted("refresh")
      /\ Top \in Frame /\ Top = stack[1] /\ 1 \in DOMAIN stack
  BY <1>1, <1>2, Installing
<1>4. bad' \in BOOLEAN /\ Kept(w, w, {"installing"})
  BY <1>1, <1>2 DEF Others, Kept
<1>5. ASSUME NEW result \in BOOLEAN, EndInstall(w, <<>>, queue, result), left' \in Budget
      PROVE  UiInv'
  BY <1>1, <1>2, <1>4, <1>5, EndKeeps
<1>6. ASSUME NEW f \in Frame, f.kind \in Busy, stack' = Append(<<>>, f), f.dev = Top.dev,
             f.own = Top.own, w' = w, queue' = queue, left' \in Budget
      PROVE  UiInv'
  <2>1. \/ f.own \/ f.dev \in {NoDev, w.device}
        \/ \E j \in DOMAIN stack : /\ stack[j].kind \in Busy /\ ~stack[j].own
                                   /\ f.dev = stack[j].dev
    BY <1>2, <1>3, <1>6
  <2>2. w' \in Window /\ Kept(w', w, {"installing"}) /\ w'.installing
    BY <1>1, <1>3, <1>4, <1>6
  <2>. QED
    BY <1>2, <1>3, <1>4, <1>6, <2>1, <2>2, BoxKeeps
<1>7. CASE Warned
  <2>1. CASE Prepare(w, <<>>, Top.dev, Top.own)
    <3>1. PICK result \in BOOLEAN :
            /\ left' = left \/ Spend("faults")
            /\ \/ EndInstall(w, <<>>, queue, result)
               \/ /\ w' = w /\ queue' = queue
                  /\ stack' = Append(<<>>,
                       [kind |-> IF System(Top.dev) THEN "system" ELSE "install",
                        dev |-> Top.dev, own |-> Top.own, ok |-> FALSE])
      BY <2>1 DEF Prepare
    <3>2. left' \in Budget
      BY <1>1, <3>1, SpendTyped DEF Others
    <3>. DEFINE f == [kind |-> IF System(Top.dev) THEN "system" ELSE "install",
                      dev |-> Top.dev, own |-> Top.own, ok |-> FALSE]
    <3>3. f \in Frame /\ f.kind \in Busy /\ f.dev = Top.dev /\ f.own = Top.own
      BY <1>3 DEF Frame, Busy
    <3>. HIDE DEF f
    <3>4. CASE EndInstall(w, <<>>, queue, result)
      BY <1>5, <3>2, <3>4
    <3>5. CASE w' = w /\ queue' = queue /\ stack' = Append(<<>>, f)
      BY <1>6, <3>2, <3>3, <3>5
    <3>. QED
      BY <3>1, <3>4, <3>5 DEF f
  <2>2. CASE EndInstall(w, <<>>, queue, FALSE) /\ left' = left
    BY <1>1, <1>5, <2>2 DEF Others
  <2>. QED
    BY <1>3, <1>7, <2>1, <2>2 DEF Warned
<1>8. CASE SystemWarned
  <2>1. left' \in Budget
    BY <1>1, <1>8 DEF SystemWarned, Others
  <2>. DEFINE f == [Top EXCEPT !.kind = "install"]
  <2>2. f \in Frame /\ f.kind \in Busy /\ f.dev = Top.dev /\ f.own = Top.own
    BY <1>3 DEF Frame, Busy
  <2>. HIDE DEF f
  <2>3. CASE stack' = Append(<<>>, f) /\ w' = w /\ queue' = queue
    BY <1>6, <2>1, <2>2, <2>3
  <2>4. CASE EndInstall(w, <<>>, queue, FALSE)
    BY <1>5, <2>1, <2>4
  <2>. QED
    BY <1>3, <1>8, <2>3, <2>4 DEF SystemWarned, f
<1>. QED
  BY <1>7, <1>8

\* One message alone.
LEMMA OneMessage ==
  ASSUME NEW m \in Messages
  PROVE  <<m>> \in Seq(Messages) /\ Range(<<m>>) = {m}
  BY DEF Range

\* What an installation does to the devices.
LEMMA InstalledTyped ==
  ASSUME NEW dev \in Rec, w \in Window, world \in World
  PROVE  Installed(dev, w) \in World
<1>1. w.type \in Range(Types) /\ (~w.has_filter) \in BOOLEAN
  BY FieldsOf, FlagsOf
<1>2. dev.hw \in 0..Hw
  BY DEF Rec
<1>3. CASE dev.hw = 0
  BY <1>3 DEF Installed
<1>4. CASE dev.hw # 0
  <2>1. dev.hw \in 1..Hw
    BY <1>2, <1>4, DevicesCounted
  <2>2. \A h \in 1..Hw : /\ [world[h] EXCEPT !.filtered = ~w.has_filter]
                              \in [plugged : BOOLEAN, driver : {"none", "hub"} \cup Range(Types),
                                   filtered : BOOLEAN]
                         /\ [world[h] EXCEPT !.driver = w.type]
                              \in [plugged : BOOLEAN, driver : {"none", "hub"} \cup Range(Types),
                                   filtered : BOOLEAN]
    BY <1>1 DEF World
  <2>. QED
    BY <1>4, <2>1, <2>2 DEF Installed, World
<1>. QED
  BY <1>3, <1>4

\* The installation has returned.
LEMMA InstallReturnsStep ==
  ASSUME UiInv, InstallReturns
  PROVE  UiInv'
<1>1. /\ w \in Window /\ Others /\ Framed /\ ListShown /\ DeviceShown /\ EditShown /\ Allocated
  BY DEF UiInv
<1>2. /\ w.installing /\ Front(stack) = <<>> /\ ~Posted("refresh")
      /\ Top \in Frame /\ Top = stack[1] /\ 1 \in DOMAIN stack /\ Top.kind = "install"
  <2>1. stack # <<>> /\ Top.kind = "install"
    BY DEF InstallReturns
  <2>. QED
    BY <1>1, <2>1, Installing DEF Busy
<1>. DEFINE v == [w EXCEPT !.hwid = Top.dev.hw]
            shown(listAll) == IF listAll THEN ToggleList(v, FALSE) ELSE v
            posted(listAll) == IF listAll /\ w.create THEN queue \o Refreshes(w) ELSE queue
<1>3. PICK result \in BOOLEAN, listAll \in BOOLEAN :
        /\ left' = left \/ Spend("faults")
        /\ world' \in {Installed(Top.dev, w), world}
        /\ odd' = (odd \ {"missed"})
                    \cup (IF listAll /\ shown(listAll).edit # NoDev THEN {"left"} ELSE {})
        /\ EndInstall(shown(listAll), <<>>, Append(posted(listAll), "devicechange"), result)
        /\ bad' = (bad \/ (~Top.own /\ Top.dev.gen \notin alive \cup {0}))
        /\ UNCHANGED <<thid, delay, alive>>
  BY <1>2 DEF InstallReturns
<1>. DEFINE u == shown(listAll)
            q == Append(posted(listAll), "devicechange")
<1>4. v \in Window /\ Kept(v, w, {"hwid"})
  <2>1. Top.dev.hw \in 0..Hw
    BY <1>2 DEF Frame, Rec
  <2>. QED
    BY <1>1, <2>1, SetNumbers, FieldNames DEF Kept, Fields
<1>. HIDE DEF v
<1>5. /\ u \in Window /\ u.list = w.list /\ u.sel = w.sel /\ u.items = w.items
      /\ u.device = w.device /\ u.edit = w.edit /\ u.create = u.menu
      /\ listAll => ~u.editing
      /\ ~listAll => Kept(u, w, {"hwid"})
      /\ ~w.create => u.label = w.label /\ LabelParts(u) = LabelParts(w)
  <2>1. v.list = w.list /\ v.create = v.menu /\ v.create = w.create /\ Len(v.list) <= Hw
    BY <1>1, <1>4 DEF Kept, Fields, EditShown, ListShown
  <2>2. CASE listAll
    <3>1. u = ToggleList(v, FALSE)
      BY <2>2
    <3>2. /\ u \in Window /\ ~u.editing
          /\ Kept(u, v, {"hubs", "all", "editing", "editbox"})
             \/ /\ v.create /\ ~u.create /\ ~u.menu
                /\ Kept(u, v, {"hubs", "all", "editing", "editbox", "create", "menu", "use_wcid",
                               "replace", "label"})
      BY <1>4, <2>1, <3>1, ToggleListTyped
    <3>. HIDE DEF u
    <3>3. /\ u.list = w.list /\ u.sel = w.sel /\ u.items = w.items /\ u.device = w.device
          /\ u.edit = w.edit
      <4>1. \A f \in {"list", "sel", "items", "device", "edit"} : u[f] = v[f]
        BY <3>2 DEF Kept, Fields
      <4>2. \A f \in {"list", "sel", "items", "device", "edit"} : v[f] = w[f]
        BY <1>4 DEF Kept, Fields
      <4>. QED
        BY <4>1, <4>2
    <3>5. u.create = u.menu
      <4>1. Kept(u, v, {"hubs", "all", "editing", "editbox"}) => u.create = v.create /\ u.menu = v.menu
        BY DEF Kept, Fields
      <4>2. u.create \in BOOLEAN /\ u.menu \in BOOLEAN
        BY <3>2, FlagsOf
      <4>. QED
        BY <2>1, <3>2, <4>1, <4>2
    <3>4. ~w.create => u.label = w.label /\ LabelParts(u) = LabelParts(w)
      BY <1>4, <2>1, <3>2 DEF Kept, Fields, LabelParts
    <3>. QED
      BY <2>2, <3>2, <3>3, <3>4, <3>5
  <2>3. CASE ~listAll
    <3>1. u = v
      BY <2>3
    <3>. HIDE DEF u
    <3>. QED
      BY <1>4, <2>1, <2>3, <3>1 DEF Kept, Fields, LabelParts
  <2>. QED
    BY <2>2, <2>3
<1>6. /\ q \in Seq(Messages)
      /\ listAll /\ w.create => "refresh" \in Range(q)
      /\ ~(listAll /\ w.create) => SameMessages(q, queue)
      /\ "cancel" \in Range(q) => Posted("cancel")
  <2>1. queue \in Seq(Messages) /\ "devicechange" \in Messages
    BY <1>1 DEF Others, Messages
  <2>2. CASE listAll /\ w.create
    <3>1. Refreshes(w) = <<"refresh">>
      BY <1>1, <2>2 DEF Refreshes, EditShown
    <3>2. Refreshes(w) \in Seq(Messages) /\ Range(Refreshes(w)) = {"refresh"}
      BY <3>1, OneMessage DEF Messages
    <3>3. posted(listAll) \in Seq(Messages) /\ Range(posted(listAll)) = Range(queue) \cup {"refresh"}
      BY <2>1, <2>2, <3>2, Joined
    <3>. HIDE DEF posted
    <3>4. q \in Seq(Messages) /\ Range(q) = Range(queue) \cup {"refresh"} \cup {"devicechange"}
      BY <2>1, <3>3, Queued
    <3>. QED
      BY <2>2, <3>4 DEF Posted
  <2>3. CASE ~(listAll /\ w.create)
    <3>1. posted(listAll) = queue
      BY <2>3
    <3>. HIDE DEF posted
    <3>2. q \in Seq(Messages) /\ Range(q) = Range(queue) \cup {"devicechange"}
      BY <2>1, <3>1, Queued
    <3>. QED
      BY <2>3, <3>2 DEF SameMessages, Posted
  <2>. QED
    BY <2>2, <2>3
<1>7. /\ w' \in Window /\ Kept(w', u, {"from_install", "installing"}) /\ ~w'.installing
      /\ stack' \in Seq(Frame) /\ SameMessages(queue', q)
      /\ \A i \in DOMAIN stack' : stack'[i].kind = "notice"
  <2>1. EndInstall(u, <<>>, q, result)
    BY <1>3
  <2>. HIDE DEF u, q
  <2>. QED
    BY <1>1, <1>5, <1>6, <2>1, Ended
<1>8. odd' = (odd \ {"missed"}) \cup (IF listAll /\ u.edit # NoDev THEN {"left"} ELSE {})
  BY <1>3
<1>. HIDE DEF u, q, shown, posted
<1>9. Framed' /\ Referring
  <2>1. stack' # <<>> => 1 \in DOMAIN stack'
    BY <1>7, Stacked
  <2>. QED
    BY <1>7, <2>1 DEF Framed, Referring, Busy
<1>10. bad' \in BOOLEAN /\ (bad' = bad \/ odd \cap {"refused", "closing"} # {})
  <2>1. odd \cap {"refused", "closing"} = {} /\ ~Top.own => Top.dev.gen \in alive \cup {0}
    BY <1>1, <1>2 DEF Allocated, Lives, NoDev, Busy
  <2>2. bad \in BOOLEAN
    BY <1>1 DEF Others
  <2>. QED
    BY <1>3, <2>1, <2>2
<1>11. Others'
  <2>1. left' \in Budget /\ world' \in World
    <3>1. left \in Budget /\ world \in World
      BY <1>1 DEF Others
    <3>2. Top.dev \in Rec
      BY <1>2 DEF Frame
    <3>. QED
      BY <1>1, <1>3, <3>1, <3>2, SpendTyped, InstalledTyped
  <2>2. odd' \subseteq Oddity
    BY <1>1, <1>8 DEF Others, Oddity
  <2>3. queue' \in Seq(Messages)
    BY <1>7 DEF SameMessages
  <2>. QED
    BY <1>1, <1>3, <1>7, <1>10, <2>1, <2>2, <2>3 DEF Others
<1>12. /\ w'.list = w.list /\ w'.sel = w.sel /\ w'.items = w.items
       /\ w'.device = w.device /\ w'.edit = w.edit /\ w'.create = w'.menu
       /\ listAll => ~w'.editing
  BY <1>5, <1>7 DEF Kept, Fields
<1>13. Allocated'
  <2>1. Posted("cancel")' => Posted("cancel")
    BY <1>6, <1>7 DEF Posted, SameMessages
  <2>2. odd \cap {"refused", "closing"} \subseteq odd' /\ alive' = alive
    BY <1>3, <1>8
  <2>. QED
    BY <1>1, <1>9, <1>10, <1>12, <2>1, <2>2, AllocKept
<1>14. CASE ~listAll
  <2>1. Kept(w', w, Unseen)
    BY <1>5, <1>7, <1>14 DEF Kept, Unseen
  <2>2. SameMessages(queue', queue)
    BY <1>6, <1>7, <1>14 DEF SameMessages
  <2>3. odd \ {"missed"} \subseteq odd' /\ alive' = alive
    BY <1>3, <1>8
  <2>. QED
    BY <1>7, <1>9, <1>10, <1>11, <2>1, <2>2, <2>3, InstallKeeps
<1>15. CASE listAll
  <2>1. ListShown'
    BY <1>1, <1>12, <1>15 DEF ListShown
  <2>2. EditShown'
    BY <1>5, <1>8, <1>12, <1>15 DEF EditShown
  <2>3. DeviceShown'
    <3>1. CASE w.create
      BY <1>6, <1>7, <1>15, <3>1 DEF DeviceShown, Posted, SameMessages
    <3>2. CASE ~w.create
      <4>1. LabelParts(w') = LabelParts(w) /\ w'.label = w.label
        BY <1>5, <1>7, <3>2 DEF Kept, Fields, LabelParts
      <4>2. Label(w') = Label(w)
        BY <4>1, LabelDepends
      <4>3. SameMessages(queue', queue)
        BY <1>6, <1>7, <3>2 DEF SameMessages
      <4>4. odd \cap {"jumped"} \subseteq odd'
        BY <1>8
      <4>. QED
        BY <1>1, <1>12, <4>1, <4>2, <4>3, <4>4 DEF DeviceShown, Posted, SameMessages
    <3>. QED
      BY <3>1, <3>2
  <2>. QED
    BY <1>7, <1>9, <1>11, <1>13, <2>1, <2>2, <2>3 DEF UiInv
<1>. QED
  BY <1>14, <1>15

\* IDOK, IDCANCEL
LEMMA CancelStep ==
  ASSUME UiInv, Cancel
  PROVE  UiInv'
<1>1. /\ w \in Window /\ Others /\ Framed /\ ListShown /\ DeviceShown /\ EditShown /\ Allocated
  BY DEF UiInv
<1>2. /\ Rest \in Seq(Messages) /\ Range(queue) = Range(Rest) \cup {"cancel"} /\ queue' = Rest
      /\ Posted("cancel")
  <2>1. /\ Rest \in Seq(Messages) /\ Range(queue) = Range(Rest) \cup {"cancel"} /\ queue' = Rest
    BY <1>1, Queued DEF Cancel, Handle, Rest, Others
  <2>. QED
    BY <2>1 DEF Posted
<1>. HIDE DEF Rest
<1>3. /\ UNCHANGED <<w, stack, thid, delay, world, odd, left>>
      /\ bad' = (bad \/ ~(Freed(w.list) \subseteq alive)) /\ alive' = alive \ Freed(w.list)
  BY DEF Cancel
<1>4. "closing" \in odd' /\ ~(odd' \cap {"refused", "closing"} = {})
  BY <1>1, <1>2, <1>3 DEF Allocated
<1>5. Allocated'
  BY <1>4 DEF Allocated
<1>6. ListShown' /\ DeviceShown' /\ EditShown'
  <2>1. /\ Posted("refresh") => Posted("refresh")'
        /\ Posted("selchange")' <=> Posted("selchange")
    BY <1>2 DEF Posted
  <2>2. Kept(w', w, Unseen) /\ odd \cap {"jumped", "left"} \subseteq odd'
    BY <1>3 DEF Kept
  <2>. QED
    BY <1>1, <2>1, <2>2, ViewKept
<1>7. IsFiniteSet(alive') /\ alive' \subseteq Nat \ {0}
  <2>1. alive' \in SUBSET alive
    BY <1>3
  <2>2. IsFiniteSet(alive)
    BY <1>1 DEF Others
  <2>. QED
    BY <1>1, <2>1, <2>2, FS_Subset DEF Others
<1>8. Others'
  BY <1>1, <1>2, <1>3, <1>7 DEF Others
<1>9. Framed'
  BY <1>1, <1>2, <1>3 DEF Framed, Posted
<1>. QED
  BY <1>1, <1>3, <1>5, <1>6, <1>8, <1>9 DEF UiInv

\* CBN_SELCHANGE
LEMMA SelChangeStep ==
  ASSUME UiInv, SelChange
  PROVE  UiInv'
<1>1. /\ w \in Window /\ Others /\ Framed /\ ListShown /\ DeviceShown /\ EditShown /\ Allocated
  BY DEF UiInv
<1>2. /\ Rest \in Seq(Messages) /\ Range(queue) = Range(Rest) \cup {"selchange"} /\ queue' = Rest
      /\ Posted("selchange")
  <2>1. Rest \in Seq(Messages) /\ Range(queue) = Range(Rest) \cup {"selchange"} /\ queue' = Rest
    BY <1>1, Queued DEF SelChange, Handle, Rest, Others
  <2>. QED
    BY <2>1 DEF Posted
<1>. HIDE DEF Rest
<1>3. /\ UNCHANGED <<stack, thid, delay, world, alive, left>> /\ odd' = odd \ {"jumped"}
      /\ bad' = (bad \/ ~(Freed(<<w'.device>>) \subseteq alive \cup {0}))
      /\ w' = SelChanged(w)
  BY DEF SelChange
<1>4. /\ w' \in Window /\ w'.label = Label(w')
      /\ w'.device = IF w.sel = 0 THEN NoDev ELSE w.items[w.sel]
      /\ Kept(w', w, {"device", "current", "replace", "wcid", "use_wcid", "wtype", "type",
                      "filter", "has_filter", "label"})
  BY <1>1, <1>3, SelChangedTyped DEF ListShown
<1>5. /\ w'.list = w.list /\ w'.sel = w.sel /\ w'.items = w.items /\ w'.edit = w.edit
      /\ w'.editing = w.editing /\ w'.create = w.create /\ w'.menu = w.menu
      /\ w'.installing = w.installing
  BY <1>4 DEF Kept, Fields
<1>6. ListShown'
  <2>1. w.items = <<>> => w.sel = 0
    <3>1. DOMAIN <<>> = {}
      OBVIOUS
    <3>. QED
      BY <1>1, <3>1 DEF ListShown
  <2>. QED
    BY <1>1, <1>4, <1>5, <2>1 DEF ListShown
<1>7. DeviceShown'
  BY <1>4, <1>5 DEF DeviceShown
<1>8. EditShown'
  BY <1>1, <1>2, <1>3, <1>5 DEF EditShown, Posted
<1>9. w'.device = NoDev \/ w'.device.gen \in Freed(w.list)
  <2>1. CASE w.sel = 0
    BY <1>4, <2>1
  <2>2. CASE w.sel # 0
    <3>1. w.sel \in DOMAIN w.items /\ w'.device = w.items[w.sel]
      BY <1>1, <1>4, <2>2 DEF ListShown
    <3>2. w.items = w.list
      BY <1>1, <3>1 DEF ListShown
    <3>. QED
      BY <3>1, <3>2 DEF Freed, Range
  <2>. QED
    BY <2>1, <2>2
<1>10. /\ bad' \in BOOLEAN
       /\ odd' \cap {"refused", "closing"} = {} => bad' = bad /\ Lives(w.device)'
  <2>1. Freed(<<w'.device>>) = {w'.device.gen}
    BY DEF Freed, Range
  <2>2. odd' \cap {"refused", "closing"} = {} => w'.device.gen \in alive \cup {0}
    BY <1>1, <1>3, <1>9 DEF Allocated, NoDev
  <2>3. odd' \cap {"refused", "closing"} = {} => Lives(w.device)'
    BY <1>1, <1>3, <1>9 DEF Allocated, Lives
  <2>4. bad \in BOOLEAN
    BY <1>1 DEF Others
  <2>. QED
    BY <1>3, <2>1, <2>2, <2>3, <2>4
<1>11. Allocated'
  <2>1. Posted("cancel")' => "closing" \in odd'
    BY <1>1, <1>2, <1>3 DEF Allocated, Posted
  <2>2. ASSUME odd' \cap {"refused", "closing"} = {}
        PROVE  /\ ~bad' /\ Freed(w.list)' \subseteq alive'
               /\ Lives(w.device)' /\ Lives(w.edit)'
               /\ \A i \in DOMAIN stack' :
                    stack'[i].kind \in Busy /\ ~stack'[i].own => Lives(stack[i].dev)'
    <3>1. odd \cap {"refused", "closing"} = {}
      BY <1>3, <2>2
    <3>2. Freed(w.list)' = Freed(w.list)
      BY <1>5 DEF Freed
    <3>3. ~bad'
      BY <1>1, <1>10, <2>2, <3>1 DEF Allocated
    <3>4. Freed(w.list) \subseteq alive'
      BY <1>1, <1>3, <3>1 DEF Allocated
    <3>5. Lives(w.edit)'
      BY <1>1, <1>3, <1>5, <3>1 DEF Allocated, Lives
    <3>6. \A i \in DOMAIN stack' :
             stack'[i].kind \in Busy /\ ~stack'[i].own => Lives(stack[i].dev)'
      BY <1>1, <1>3, <3>1 DEF Allocated, Lives
    <3>. QED
      BY <1>10, <2>2, <3>2, <3>3, <3>4, <3>5, <3>6
  <2>. QED
    BY <2>1, <2>2 DEF Allocated
<1>12. Others'
  BY <1>1, <1>2, <1>3, <1>10 DEF Others
<1>13. Framed'
  BY <1>1, <1>2, <1>3, <1>5 DEF Framed, Posted
<1>. QED
  BY <1>4, <1>6, <1>7, <1>8, <1>11, <1>12, <1>13 DEF UiInv

\* The window after the list was made anew, or was not: nothing is selected yet, or can be.
LEMMA RefreshedTyped ==
  ASSUME w \in Window, world \in World, Len(w.list) <= Hw, NEW g \in Nat,
         NEW destroyed \in BOOLEAN, NEW created \in BOOLEAN,
         LET v == [w EXCEPT !.editing = FALSE, !.filter = FALSE, !.from_install = FALSE,
                            !.editbox = IF w.editing THEN FALSE ELSE @,
                            !.current = IF w.from_install THEN @ ELSE 1,
                            !.edit = NoDev, !.device = NoDev,
                            !.list = NewList(g, created)]
         IN IF created /\ Listing(g, w) # <<>>
            THEN w' = DisplayDevices(v)
            ELSE w' = SetInstallButton(UpdateUi(
                        [v EXCEPT !.found = FALSE, !.items = <<>>, !.sel = 0,
                                  !.wcid = "none", !.use_wcid = TRUE]))
  PROVE  /\ w' \in Window /\ w'.device = NoDev /\ w'.edit = NoDev /\ ~w'.editing
         /\ w'.list = NewList(g, created) /\ w'.installing = w.installing
         /\ w'.create = w.create /\ w'.menu = w.menu /\ w'.all = w.all /\ w'.hubs = w.hubs
         /\ w'.sel \in DOMAIN w'.items \cup {0}
         /\ \/ created /\ Listing(g, w) # <<>> /\ w'.items = w'.list
            \/ ~(created /\ Listing(g, w) # <<>>) /\ w'.items = <<>> /\ w'.label = Label(w')
<1>. DEFINE box == IF w.editing THEN FALSE ELSE w.editbox
            current == IF w.from_install THEN w.current ELSE 1
            list == NewList(g, created)
            v == [w EXCEPT !.editing = FALSE, !.filter = FALSE, !.from_install = FALSE,
                           !.editbox = box, !.current = current,
                           !.edit = NoDev, !.device = NoDev, !.list = list]
            bare == [v EXCEPT !.found = FALSE, !.items = <<>>, !.sel = 0,
                              !.wcid = "none", !.use_wcid = TRUE]
<1>1. /\ box \in BOOLEAN /\ current \in 0..Hw /\ list \in Seq(Rec) /\ Len(list) <= Hw
  <2>1. Listing(g, w) \in Seq(Rec) /\ Len(Listing(g, w)) <= Hw
    BY ListingTyped
  <2>2. list \in Seq(Rec) /\ Len(list) <= Hw
    BY <2>1, FieldsOf DEF NewList
  <2>3. box \in BOOLEAN
    BY FlagsOf
  <2>4. current \in 0..Hw
    BY FieldsOf, DevicesCounted
  <2>. QED
    BY <2>2, <2>3, <2>4
<1>2. /\ created /\ Listing(g, w) # <<>> => w' = DisplayDevices(v)
      /\ ~(created /\ Listing(g, w) # <<>>) => w' = SetInstallButton(UpdateUi(bare))
  OBVIOUS
<1>. HIDE DEF box, current, list
<1>3. v \in Window
  <2>. DEFINE v1 == [w EXCEPT !.editing = FALSE, !.filter = FALSE]
              v2 == [v1 EXCEPT !.from_install = FALSE, !.editbox = box]
              v3 == [v2 EXCEPT !.current = current, !.edit = NoDev]
  <2>1. v1 \in Window
    <3>1. [w EXCEPT !.editing = FALSE] \in Window
      BY SetFlags
    <3>. QED
      BY <3>1, SetFlags
  <2>. HIDE DEF v1
  <2>2. v2 \in Window
    <3>1. [v1 EXCEPT !.from_install = FALSE] \in Window
      BY <2>1, SetFlags
    <3>. QED
      BY <1>1, <3>1, SetFlags
  <2>. HIDE DEF v2
  <2>3. v3 \in Window
    <3>1. [v2 EXCEPT !.current = current] \in Window
      BY <1>1, <2>2, SetNumbers
    <3>. QED
      BY <3>1, NoDevTyped, SetDevices
  <2>. HIDE DEF v3
  <2>4. [v3 EXCEPT !.device = NoDev, !.list = list] \in Window
    <3>1. [v3 EXCEPT !.device = NoDev] \in Window
      BY <2>3, NoDevTyped, SetDevices
    <3>. QED
      BY <1>1, <3>1, SetDevices
  <2>5. v = [v3 EXCEPT !.device = NoDev, !.list = list]
    BY DEF v1, v2, v3
  <2>. QED
    BY <2>4, <2>5
<1>4. /\ v.device = NoDev /\ v.edit = NoDev /\ ~v.editing /\ v.list = list
      /\ v.installing = w.installing /\ v.create = w.create /\ v.menu = w.menu
      /\ v.all = w.all /\ v.hubs = w.hubs
  BY FieldNames DEF Fields
<1>. HIDE DEF v
<1>5. CASE created /\ Listing(g, w) # <<>>
  <2>1. /\ w' \in Window /\ w'.items = v.list /\ w'.sel \in DOMAIN w'.items \cup {0}
        /\ \A f \in Fields \ {"items", "found", "current", "hwid", "sel"} : w'[f] = v[f]
    BY <1>1, <1>2, <1>3, <1>4, <1>5, DisplayTyped
  <2>2. /\ w'.device = NoDev /\ w'.edit = NoDev /\ ~w'.editing /\ w'.list = list
        /\ w'.installing = w.installing /\ w'.create = w.create /\ w'.menu = w.menu
        /\ w'.all = w.all /\ w'.hubs = w.hubs
    BY <1>4, <2>1 DEF Fields
  <2>. QED
    BY <1>4, <1>5, <2>1, <2>2 DEF list
<1>6. CASE ~(created /\ Listing(g, w) # <<>>)
  <2>1. /\ bare \in Window /\ bare.items = <<>> /\ bare.sel = 0
        /\ Kept(bare, v, {"found", "items", "sel", "wcid", "use_wcid"})
    <3>1. <<>> \in Seq(Rec) /\ 0 \in 0..Hw
      BY EmptySeq, DevicesCounted
    <3>2. [v EXCEPT !.found = FALSE, !.items = <<>>] \in Window
      <4>1. [v EXCEPT !.found = FALSE] \in Window
        BY <1>3, SetFlags
      <4>. QED
        BY <3>1, <4>1, SetDevices
    <3>3. [v EXCEPT !.found = FALSE, !.items = <<>>, !.sel = 0, !.wcid = "none"] \in Window
      <4>1. [v EXCEPT !.found = FALSE, !.items = <<>>, !.sel = 0] \in Window
        BY <3>1, <3>2, SetNumbers
      <4>. QED
        BY <4>1, SetNames
    <3>4. bare \in Window
      BY <3>3, SetFlags
    <3>. QED
      BY <1>3, <3>4, FieldNames DEF Fields, Kept
  <2>. HIDE DEF bare
  <2>2. UpdateUi(bare) \in Window /\ Kept(UpdateUi(bare), bare, {"filter", "has_filter"})
    BY <2>1, UiTyped
  <2>3. w' \in Window /\ Kept(w', UpdateUi(bare), {"label"}) /\ w'.label = Label(w')
    BY <1>2, <1>6, <2>2, ButtonTyped
  <2>4. Kept(w', v, {"found", "items", "sel", "wcid", "use_wcid", "filter", "has_filter", "label"})
    BY <2>1, <2>2, <2>3 DEF Kept
  <2>5. w'.items = bare.items /\ w'.sel = bare.sel
    BY <2>2, <2>3 DEF Kept, Fields
  <2>6. /\ w'.device = v.device /\ w'.edit = v.edit /\ w'.editing = v.editing /\ w'.list = v.list
        /\ w'.installing = v.installing /\ w'.create = v.create /\ w'.menu = v.menu
        /\ w'.all = v.all /\ w'.hubs = v.hubs
    BY <2>4 DEF Kept, Fields
  <2>. QED
    BY <1>4, <1>6, <2>1, <2>3, <2>5, <2>6 DEF list
<1>. QED
  BY <1>5, <1>6

\* UM_REFRESH_LIST
LEMMA RefreshStep ==
  ASSUME UiInv, RefreshList
  PROVE  UiInv'
<1>1. /\ w \in Window /\ Others /\ Framed /\ ListShown /\ DeviceShown /\ EditShown /\ Allocated
  BY DEF UiInv
<1>2. Rest \in Seq(Messages) /\ Range(queue) = Range(Rest) \cup {"refresh"} /\ Posted("refresh")
  <2>1. Rest \in Seq(Messages) /\ Range(queue) = Range(Rest) \cup {"refresh"}
    BY <1>1, Queued DEF RefreshList, Handle, Rest, Others
  <2>. QED
    BY <2>1 DEF Posted
<1>. HIDE DEF Rest
<1>3. ~w.installing /\ \A i \in DOMAIN stack : stack[i].kind \notin Busy
  <2>1. stack # <<>> => 1 \in DOMAIN stack
    BY <1>1, Stacked DEF Others
  <2>2. \A i \in DOMAIN stack : stack[i].kind \in Busy => i = 1 /\ stack # <<>>
    BY <1>1 DEF Framed
  <2>. QED
    BY <1>1, <1>2, <2>2 DEF Framed
<1>4. UNCHANGED <<stack, thid, delay, world>>
  BY DEF RefreshList
<1>. DEFINE g == Fresh
            listed(created) == created /\ Listing(g, w) # <<>>
            v(created) == [w EXCEPT !.editing = FALSE, !.filter = FALSE, !.from_install = FALSE,
                                    !.editbox = IF w.editing THEN FALSE ELSE @,
                                    !.current = IF w.from_install THEN @ ELSE 1,
                                    !.edit = NoDev, !.device = NoDev,
                                    !.list = NewList(g, created)]
            bare(created) == SetInstallButton(UpdateUi(
                               [v(created) EXCEPT !.found = FALSE, !.items = <<>>, !.sel = 0,
                                                  !.wcid = "none", !.use_wcid = TRUE]))
            kept(destroyed) == IF destroyed THEN alive \ Freed(w.list) ELSE alive
<1>5. \E destroyed, created \in BOOLEAN :
        /\ w.list = <<>> => destroyed
        /\ IF destroyed /\ created THEN UNCHANGED left ELSE Spend("faults")
        /\ bad' = (bad \/ (destroyed /\ ~(Freed(w.list) \subseteq alive)))
        /\ odd' = (odd \ {"left"}) \cup IF created THEN {} ELSE {"refused"}
        /\ alive' = IF created THEN kept(destroyed) \cup Freed(Listing(g, w)) ELSE kept(destroyed)
        /\ IF created /\ Listing(g, w) # <<>>
           THEN w' = DisplayDevices(v(created)) /\ queue' = Append(Rest, "selchange")
           ELSE w' = bare(created) /\ queue' = Rest
  BY <1>3, ZenonT(60) DEF RefreshList
<1>6. PICK destroyed \in BOOLEAN, created \in BOOLEAN :
        /\ IF destroyed /\ created THEN UNCHANGED left ELSE Spend("faults")
        /\ bad' = (bad \/ (destroyed /\ ~(Freed(w.list) \subseteq alive)))
        /\ odd' = (odd \ {"left"}) \cup IF created THEN {} ELSE {"refused"}
        /\ alive' = IF created THEN kept(destroyed) \cup Freed(Listing(g, w)) ELSE kept(destroyed)
        /\ IF created /\ Listing(g, w) # <<>>
           THEN w' = DisplayDevices(v(created)) /\ queue' = Append(Rest, "selchange")
           ELSE w' = bare(created) /\ queue' = Rest
  BY <1>5, Zenon
<1>7. /\ g \in Nat \ {0} /\ Listing(g, w) \in Seq(Rec) /\ Len(Listing(g, w)) <= Hw
      /\ Freed(Listing(g, w)) \subseteq {g}
  <2>1. UiTypeOK /\ IsFiniteSet(alive)
    BY <1>1 DEF Others, UiTypeOK
  <2>2. g \in Nat \ {0}
    BY <2>1, FreshIsFresh
  <2>. HIDE DEF g
  <2>. QED
    BY <1>1, <2>2, ListingTyped DEF Others
<1>8. /\ w' \in Window /\ w'.device = NoDev /\ w'.edit = NoDev /\ ~w'.editing
      /\ w'.list = NewList(g, created) /\ w'.installing = w.installing
      /\ w'.create = w.create /\ w'.menu = w.menu
      /\ w'.sel \in DOMAIN w'.items \cup {0}
      /\ \/ created /\ Listing(g, w) # <<>> /\ w'.items = w'.list
         \/ ~(created /\ Listing(g, w) # <<>>) /\ w'.items = <<>> /\ w'.label = Label(w')
  <2>1. /\ g \in Nat /\ world \in World /\ Len(w.list) <= Hw
        /\ IF created /\ Listing(g, w) # <<>> THEN w' = DisplayDevices(v(created))
                                              ELSE w' = bare(created)
    <3>. HIDE DEF g, v, bare
    <3>. QED
      BY <1>1, <1>6, <1>7 DEF Others, ListShown
  <2>. HIDE DEF g
  <2>. QED
    BY <1>1, <2>1, RefreshedTyped, ZenonT(60)
<1>. HIDE DEF g, v, bare, kept
<1>9. /\ queue' \in Seq(Messages)
      /\ Posted("cancel")' => Posted("cancel")
      /\ created /\ Listing(g, w) # <<>> => Posted("selchange")'
  <2>1. "selchange" \in Messages
    BY DEF Messages
  <2>2. CASE created /\ Listing(g, w) # <<>>
    <3>1. queue' = Append(Rest, "selchange")
      BY <1>6, <2>2
    <3>2. queue' \in Seq(Messages) /\ Range(queue') = Range(Rest) \cup {"selchange"}
      BY <1>2, <2>1, <3>1, Queued
    <3>. QED
      BY <1>2, <3>2 DEF Posted
  <2>3. CASE ~(created /\ Listing(g, w) # <<>>)
    <3>1. queue' = Rest
      BY <1>6, <2>3
    <3>. QED
      BY <1>2, <2>3, <3>1 DEF Posted
  <2>. QED
    BY <2>2, <2>3
<1>10. ListShown'
  <2>1. Len(NewList(g, created)) <= Hw
    BY <1>1, <1>7 DEF NewList, ListShown
  <2>. QED
    BY <1>8, <2>1 DEF ListShown
<1>11. DeviceShown'
  BY <1>8, <1>9 DEF DeviceShown
<1>12. EditShown'
  BY <1>1, <1>8 DEF EditShown
<1>13. Framed'
  BY <1>1, <1>3, <1>4, <1>8 DEF Framed
<1>14. Allocated'
  <2>1. Posted("cancel")' => "closing" \in odd'
    BY <1>1, <1>6, <1>9 DEF Allocated
  <2>2. ASSUME odd' \cap {"refused", "closing"} = {}
        PROVE  ~bad' /\ Freed(w'.list) \subseteq alive'
    <3>1. created /\ odd \cap {"refused", "closing"} = {}
      BY <1>6, <2>2
    <3>2. ~bad'
      BY <1>1, <1>6, <3>1 DEF Allocated
    <3>3. w'.list = Listing(g, w) /\ Freed(Listing(g, w)) \subseteq alive'
      BY <1>6, <1>8, <3>1 DEF NewList
    <3>. QED
      BY <3>2, <3>3
  <2>3. \A i \in DOMAIN stack' : stack'[i].kind \notin Busy
    BY <1>3, <1>4
  <2>. QED
    BY <1>8, <2>1, <2>2, <2>3 DEF Allocated, Lives, Freed
<1>15. Others'
  <2>1. left' \in Budget
    BY <1>1, <1>6, SpendTyped DEF Others
  <2>2. odd' \subseteq Oddity /\ bad' \in BOOLEAN
    BY <1>1, <1>6 DEF Others, Oddity
  <2>3. alive' \subseteq Nat \ {0} /\ IsFiniteSet(alive')
    <3>1. alive \subseteq Nat \ {0} /\ IsFiniteSet(alive)
      BY <1>1 DEF Others
    <3>2. kept(destroyed) \in SUBSET alive
      BY DEF kept
    <3>3. IsFiniteSet(kept(destroyed))
      BY <3>1, <3>2, FS_Subset
    <3>4. Freed(Listing(g, w)) \in SUBSET {g} /\ IsFiniteSet({g})
      BY <1>7, FS_Singleton
    <3>5. IsFiniteSet(Freed(Listing(g, w)))
      BY <3>4, FS_Subset
    <3>6. IsFiniteSet(kept(destroyed) \cup Freed(Listing(g, w)))
      BY <3>3, <3>5, FS_Union
    <3>. QED
      BY <1>6, <1>7, <3>1, <3>2, <3>3, <3>6
  <2>. QED
    BY <1>1, <1>4, <1>9, <2>1, <2>2, <2>3 DEF Others
<1>. QED
  BY <1>8, <1>10, <1>11, <1>12, <1>13, <1>14, <1>15 DEF UiInv

\* Input reaches the window only while nothing is posted or open.
LEMMA Clicked ==
  ASSUME UiInv, NEW v \in Window, NEW q \in Seq(Messages), Click(v, q), "cancel" \notin Range(q),
         v.installing = w.installing, v.list = w.list, v.device \in {w.device, NoDev},
         v.edit \in {w.edit, w.device, NoDev}, bad' = bad, odd \subseteq odd', odd' \subseteq Oddity
  PROVE  /\ w' = v /\ queue' = q /\ UNCHANGED stack
         /\ Others' /\ Framed' /\ Allocated' /\ \A m : ~Posted(m)
<1>1. /\ w \in Window /\ Others /\ Framed /\ Allocated
  BY DEF UiInv
<1>2. /\ queue = <<>> /\ stack = <<>> /\ w' = v /\ queue' = q
      /\ UNCHANGED <<stack, thid, delay, world, alive>> /\ Spend("clicks")
  BY DEF Click, CanInput
<1>3. \A m : ~Posted(m)
  BY <1>2 DEF Posted, Range
<1>4. stack' \in Seq(Frame) /\ Framed' /\ Referring
  <2>1. StackCalm /\ ~w.installing /\ w'.installing = w.installing
    BY <1>1, <1>2 DEF StackCalm, Framed
  <2>. QED
    BY <1>1, <2>1, CalmFrames DEF Others
<1>5. Allocated'
  <2>1. odd \cap {"refused", "closing"} \subseteq odd'
    OBVIOUS
  <2>2. ~Posted("cancel")'
    BY <1>2 DEF Posted
  <2>. QED
    BY <1>1, <1>2, <1>4, <2>1, <2>2, AllocKept
<1>6. Others'
  <2>1. left' \in Budget
    BY <1>1, <1>2, SpendTyped DEF Others
  <2>. QED
    BY <1>1, <1>2, <1>4, <2>1 DEF Others
<1>. QED
  BY <1>2, <1>3, <1>4, <1>5, <1>6

\* No message is posted.
LEMMA NoMessage == <<>> \in Seq(Messages) /\ Range(<<>>) = {}
  BY EmptySeq DEF Range

\* The mode that creates a device comes on.
LEMMA CreateShown ==
  ASSUME UiInv, ~w.menu, w' = ToggleCreate(w), odd' = odd, Posted("refresh") => Posted("refresh")'
  PROVE  w' \in Window /\ ListShown' /\ DeviceShown' /\ EditShown'
<1>1. w \in Window /\ ListShown /\ EditShown
  BY DEF UiInv
<1>2. /\ w' \in Window /\ w'.create /\ w'.menu /\ w'.label = Label(w') /\ w'.device = NoDev
      /\ Kept(w', w, Fields \ {"list", "installing", "from_install", "all", "hubs", "type"})
      /\ \/ /\ w.editing /\ w'.edit = NoDev /\ ~w'.editing /\ w'.items = w.list
            /\ w'.sel \in DOMAIN w'.items \cup {0}
         \/ /\ ~w.editing /\ w'.edit = w.edit /\ ~w'.editing /\ w'.items = w.items
            /\ w'.sel = w.sel
  <2>1. /\ w' \in Window /\ w'.create = ~w.menu /\ w'.menu = ~w.menu /\ w'.label = Label(w')
        /\ Kept(w', w, Fields \ {"list", "installing", "from_install", "all", "hubs", "type"})
        /\ w'.device = NoDev
        /\ \/ /\ w.editing /\ w'.edit = NoDev /\ ~w'.editing /\ w'.items = w.list
              /\ w'.sel \in DOMAIN w'.items \cup {0}
           \/ /\ ~w.editing /\ w'.edit = w.edit /\ ~w'.editing /\ w'.items = w.items
              /\ w'.sel = w.sel
    BY <1>1, ToggleCreateTyped DEF ListShown
  <2>. QED
    BY <2>1
<1>3. w'.list = w.list
  BY <1>2 DEF Kept, Fields
<1>4. ListShown'
  BY <1>1, <1>2, <1>3 DEF ListShown
<1>5. DeviceShown'
  BY <1>2 DEF DeviceShown
<1>6. EditShown'
  BY <1>1, <1>2 DEF EditShown
<1>. QED
  BY <1>2, <1>4, <1>5, <1>6

\* IDM_CREATE
LEMMA CreateStep ==
  ASSUME UiInv, CreateClicked
  PROVE  UiInv'
<1>1. /\ w \in Window /\ Others /\ Framed /\ ListShown /\ DeviceShown /\ EditShown /\ Allocated
  BY DEF UiInv
<1>. DEFINE u == ToggleCreate(w)
<1>2. /\ u \in Window /\ u.create = ~w.menu /\ u.menu = ~w.menu
      /\ Kept(u, w, Fields \ {"list", "installing", "from_install", "all", "hubs", "type"})
      /\ w.menu => Kept(u, w, {"editbox", "create", "menu", "use_wcid", "replace", "label"})
      /\ ~w.menu => u.device = NoDev /\ u.edit \in {NoDev, w.edit}
  BY <1>1, ToggleCreateTyped DEF ListShown
<1>. HIDE DEF u
<1>3. /\ u.installing = w.installing /\ u.list = w.list /\ u.device \in {w.device, NoDev}
      /\ u.edit \in {w.edit, w.device, NoDev}
      /\ w.menu => /\ u.sel = w.sel /\ u.items = w.items /\ u.device = w.device
                   /\ u.editing = w.editing
  BY <1>2 DEF Kept, Fields
<1>4. /\ Refreshes(w) \in Seq(Messages) /\ "cancel" \notin Range(Refreshes(w))
      /\ w.menu => "refresh" \in Range(Refreshes(w))
  BY OneMessage, NoMessage DEF Refreshes, Messages
<1>5. /\ w' = u /\ queue' = Refreshes(w) /\ Others' /\ Framed' /\ Allocated'
      /\ \A m : ~Posted(m)
  <2>1. Click(u, Refreshes(w)) /\ bad' = bad /\ odd' = odd
    BY DEF CreateClicked, Calm, u
  <2>2. odd' \subseteq Oddity
    BY <1>1, <2>1 DEF Others
  <2>. QED
    BY <1>2, <1>3, <1>4, <2>1, <2>2, Clicked
<1>6. ListShown' /\ DeviceShown' /\ EditShown'
  <2>1. CASE w.menu
    <3>1. Posted("refresh")'
      BY <1>4, <1>5, <2>1 DEF Posted
    <3>2. w'.create = w'.menu
      BY <1>2, <1>5, FlagsOf
    <3>3. ListShown'
      BY <1>1, <1>3, <1>5, <2>1 DEF ListShown
    <3>. QED
      BY <3>1, <3>2, <3>3 DEF DeviceShown, EditShown
  <2>2. CASE ~w.menu
    <3>1. w' = ToggleCreate(w) /\ odd' = odd
      BY <1>5 DEF u, CreateClicked, Calm
    <3>. QED
      BY <1>5, <2>2, <3>1, CreateShown
  <2>. QED
    BY <2>1, <2>2
<1>. QED
  BY <1>2, <1>5, <1>6 DEF UiInv

\* A preset is read, or none is.
LEMMA FileStep ==
  ASSUME UiInv, FileChosen
  PROVE  UiInv'
<1>1. /\ w \in Window /\ Others /\ Framed /\ ListShown /\ DeviceShown /\ EditShown /\ Allocated
  BY DEF UiInv
<1>2. /\ stack # <<>> /\ Top.kind \notin Busy /\ stack' = Front(stack)
      /\ UNCHANGED <<queue, thid, delay, world, alive, bad, odd, left>>
      /\ w' \in {w, ToggleCreate(w)} /\ (w' = w \/ ~w.create)
  BY DEF FileChosen, Busy
<1>3. StackCalm /\ QueueCalm
  BY <1>1, <1>2, CloseCalm, SameCalm DEF Others
<1>4. CASE w' = w
  <2>1. Besides
    BY <1>1, <1>2, <1>3, <1>4 DEF Besides, Others
  <2>. QED
    BY <2>1, BesidesStep
<1>5. CASE w' # w
  <2>1. ~w.menu /\ w' = ToggleCreate(w)
    BY <1>1, <1>2, <1>5 DEF EditShown
  <2>2. w' \in Window /\ ListShown' /\ DeviceShown' /\ EditShown'
    BY <1>2, <2>1, CreateShown DEF Posted
  <2>3. /\ w'.installing = w.installing /\ w'.list = w.list /\ w'.device = NoDev
        /\ w'.edit \in {NoDev, w.edit}
    <3>1. /\ w'.device = NoDev /\ w'.edit \in {NoDev, w.edit}
          /\ Kept(w', w, Fields \ {"list", "installing", "from_install", "all", "hubs", "type"})
      BY <1>1, <2>1, ToggleCreateTyped DEF ListShown
    <3>. QED
      BY <3>1 DEF Kept, Fields
  <2>4. stack' \in Seq(Frame) /\ Framed' /\ Referring
    BY <1>1, <1>2, <1>3, <2>3, CalmFrames DEF Others, Framed, Posted
  <2>5. Allocated'
    BY <1>1, <1>2, <2>3, <2>4, AllocKept DEF Posted
  <2>6. Others'
    BY <1>1, <1>2, <2>4 DEF Others
  <2>. QED
    BY <2>2, <2>4, <2>5, <2>6 DEF UiInv
<1>. QED
  BY <1>4, <1>5

\* The user who creates a device has answered.
LEMMA EventAnsweredStep ==
  ASSUME UiInv, EventAnswered
  PROVE  UiInv'
<1>1. /\ w \in Window /\ Others /\ Framed /\ ListShown /\ DeviceShown /\ EditShown /\ Allocated
  BY DEF UiInv
<1>2. /\ stack # <<>> /\ Top.kind = "event" /\ stack' = Front(stack)
      /\ UNCHANGED <<thid, delay, world, alive, bad, left>>
  BY DEF EventAnswered
<1>3. StackCalm
  BY <1>2, CloseCalm DEF Busy
<1>4. CASE odd' = odd \cup {"declined"} /\ w' = w /\ queue' = queue
  <2>1. Besides
    BY <1>1, <1>2, <1>3, <1>4, SameCalm DEF Besides, Others, Oddity
  <2>. QED
    BY <2>1, BesidesStep
<1>5. CASE /\ w' = [(IF w.create THEN ToggleCreate(w) ELSE w) EXCEPT !.menu = FALSE, !.editbox = FALSE]
           /\ queue' = Post("refresh") /\ odd' = odd
  <2>. DEFINE u == IF w.create THEN ToggleCreate(w) ELSE w
  <2>1. /\ u \in Window /\ ~u.create
        /\ Kept(u, w, {"editbox", "create", "menu", "use_wcid", "replace", "label"})
    <3>1. CASE w.create
      <4>1. w.menu /\ u = ToggleCreate(w)
        BY <1>1, <3>1 DEF EditShown
      <4>2. /\ u \in Window /\ u.create = ~w.menu
            /\ Kept(u, w, {"editbox", "create", "menu", "use_wcid", "replace", "label"})
        BY <1>1, <4>1, ToggleCreateTyped DEF ListShown
      <4>. QED
        BY <4>1, <4>2
    <3>2. CASE ~w.create
      BY <1>1, <3>2 DEF Kept
    <3>. QED
      BY <3>1, <3>2
  <2>2. w' = [u EXCEPT !.menu = FALSE, !.editbox = FALSE]
    BY <1>5
  <2>. HIDE DEF u
  <2>3. w' \in Window /\ ~w'.menu /\ Kept(w', u, {"menu", "editbox"})
    <3>1. [u EXCEPT !.menu = FALSE] \in Window
      BY <2>1, SetFlags
    <3>2. w' \in Window
      BY <2>2, <3>1, SetFlags
    <3>. QED
      BY <2>1, <2>2, <3>2, FieldNames DEF Kept, Fields
  <2>4. /\ w'.installing = w.installing /\ w'.list = w.list /\ w'.device = w.device
        /\ w'.edit = w.edit /\ w'.sel = w.sel /\ w'.items = w.items /\ w'.editing = w.editing
        /\ w'.create = u.create
    BY <2>1, <2>3 DEF Kept, Fields
  <2>5. queue' \in Seq(Messages) /\ Range(queue') = Range(queue) \cup {"refresh"}
    <3>1. "refresh" \in Messages
      BY DEF Messages
    <3>. QED
      BY <1>1, <1>5, <3>1, Queued DEF Post, Others
  <2>6. Posted("refresh")' /\ (Posted("cancel")' <=> Posted("cancel"))
    BY <2>5 DEF Posted
  <2>7. ~w.installing
    <3>1. Top = stack[Len(stack)] /\ Len(stack) \in DOMAIN stack
      BY <1>1, <1>2, Stacked DEF Others, Top
    <3>. QED
      BY <1>1, <1>2, <3>1 DEF Framed
  <2>8. stack' \in Seq(Frame) /\ Framed' /\ Referring
    BY <1>1, <1>3, <2>4, <2>7, CalmFrames DEF Others
  <2>9. Allocated'
    BY <1>1, <1>2, <1>5, <2>4, <2>6, <2>8, AllocKept
  <2>10. Others'
    BY <1>1, <1>2, <1>5, <2>5, <2>8 DEF Others
  <2>11. ListShown'
    BY <1>1, <2>4 DEF ListShown
  <2>12. w'.create = w'.menu
    BY <2>1, <2>3, <2>4, FlagsOf
  <2>. QED
    BY <2>3, <2>6, <2>8, <2>9, <2>10, <2>11, <2>12 DEF UiInv, DeviceShown, EditShown
<1>. QED
  BY <1>4, <1>5 DEF EventAnswered

\* Another item of the drop-down list is chosen.
LEMMA SelectStep ==
  ASSUME UiInv, SelectItem
  PROVE  UiInv'
<1>1. /\ w \in Window /\ Others /\ Framed /\ ListShown /\ DeviceShown /\ EditShown /\ Allocated
  BY DEF UiInv
<1>2. PICK i \in DOMAIN w.items : Click([w EXCEPT !.sel = i], <<"selchange">>)
  BY DEF SelectItem
<1>3. ~w.editbox /\ bad' = bad /\ odd' = odd
  BY DEF SelectItem, Calm
<1>. DEFINE v == [w EXCEPT !.sel = i]
<1>4. v \in Window /\ Kept(v, w, {"sel"}) /\ v.sel = i
  <2>1. i \in 0..Hw
    <3>1. DOMAIN w.items = 1..Len(w.items) /\ Len(w.items) \in Nat
      BY <1>1, FieldsOf, LenProperties
    <3>2. w.items = w.list
      BY <1>1, <3>1 DEF ListShown
    <3>. QED
      BY <1>1, <3>1, <3>2, DevicesCounted DEF ListShown
  <2>. QED
    BY <1>1, <2>1, SetNumbers, FieldNames DEF Kept, Fields
<1>5. Click(v, <<"selchange">>)
  BY <1>2
<1>. HIDE DEF v
<1>6. /\ <<"selchange">> \in Seq(Messages) /\ Range(<<"selchange">>) = {"selchange"}
  BY OneMessage DEF Messages
<1>7. /\ v.installing = w.installing /\ v.list = w.list /\ v.device = w.device
      /\ v.edit = w.edit /\ v.items = w.items /\ v.editing = w.editing /\ v.editbox = w.editbox
      /\ v.create = w.create /\ v.menu = w.menu
  BY <1>4 DEF Kept, Fields
<1>8. /\ w' = v /\ queue' = <<"selchange">> /\ Others' /\ Framed' /\ Allocated'
      /\ \A m : ~Posted(m)
  <2>1. "cancel" \notin Range(<<"selchange">>) /\ odd' \subseteq Oddity
    BY <1>1, <1>3, <1>6 DEF Others
  <2>. QED
    BY <1>3, <1>4, <1>5, <1>6, <1>7, <2>1, Clicked
<1>9. ListShown'
  BY <1>1, <1>4, <1>7, <1>8 DEF ListShown
<1>10. DeviceShown'
  BY <1>6, <1>8 DEF DeviceShown, Posted
<1>11. EditShown'
  BY <1>1, <1>3, <1>7, <1>8 DEF EditShown
<1>. QED
  BY <1>4, <1>8, <1>9, <1>10, <1>11 DEF UiInv

\* IDM_LISTALL, IDM_IGNOREHUBS
LEMMA ListStep ==
  ASSUME UiInv, ListClicked
  PROVE  UiInv'
<1>1. /\ w \in Window /\ Others /\ Framed /\ ListShown /\ DeviceShown /\ EditShown /\ Allocated
  BY DEF UiInv
<1>2. PICK hubs \in BOOLEAN :
        Click(ToggleList(w, hubs), (IF w.create THEN Refreshes(w) ELSE <<>>) \o <<"refresh">>)
  BY DEF ListClicked
<1>3. bad' = bad /\ odd' = odd
  BY DEF ListClicked, Calm
<1>. DEFINE u == ToggleList(w, hubs)
            q == (IF w.create THEN Refreshes(w) ELSE <<>>) \o <<"refresh">>
<1>4. /\ u \in Window /\ ~u.editing
      /\ \/ Kept(u, w, {"hubs", "all", "editing", "editbox"})
         \/ /\ ~u.create /\ ~u.menu
            /\ Kept(u, w, {"hubs", "all", "editing", "editbox", "create", "menu", "use_wcid",
                           "replace", "label"})
  BY <1>1, ToggleListTyped DEF ListShown, EditShown
<1>5. q \in Seq(Messages) /\ "refresh" \in Range(q) /\ "cancel" \notin Range(q)
  <2>. DEFINE first == IF w.create THEN Refreshes(w) ELSE <<>>
  <2>1. first \in Seq(Messages) /\ "cancel" \notin Range(first)
    BY OneMessage, NoMessage DEF Refreshes, Messages
  <2>2. <<"refresh">> \in Seq(Messages) /\ Range(<<"refresh">>) = {"refresh"}
    BY OneMessage DEF Messages
  <2>. HIDE DEF first
  <2>3. first \o <<"refresh">> \in Seq(Messages)
        /\ Range(first \o <<"refresh">>) = Range(first) \cup Range(<<"refresh">>)
    BY <2>1, <2>2, Joined
  <2>. QED
    BY <2>1, <2>2, <2>3 DEF first
<1>6. Click(u, q)
  BY <1>2
<1>. HIDE DEF u, q
<1>7. /\ u.installing = w.installing /\ u.list = w.list /\ u.device = w.device
      /\ u.edit = w.edit /\ u.items = w.items /\ u.sel = w.sel
  BY <1>4 DEF Kept, Fields
<1>8. u.create = u.menu
  <2>1. CASE Kept(u, w, {"hubs", "all", "editing", "editbox"})
    <3>1. u.create = w.create /\ u.menu = w.menu
      BY <2>1 DEF Kept, Fields
    <3>. QED
      BY <1>1, <3>1 DEF EditShown
  <2>2. CASE ~u.create /\ ~u.menu
    BY <1>4, <2>2, FlagsOf
  <2>. QED
    BY <1>4, <2>1, <2>2
<1>9. w' = u /\ queue' = q /\ Others' /\ Framed' /\ Allocated'
  <2>1. odd' \subseteq Oddity
    BY <1>1, <1>3 DEF Others
  <2>. QED
    BY <1>3, <1>4, <1>5, <1>6, <1>7, <2>1, Clicked
<1>10. ListShown'
  BY <1>1, <1>4, <1>7, <1>9 DEF ListShown
<1>11. Posted("refresh")'
  BY <1>5, <1>9 DEF Posted
<1>. QED
  BY <1>4, <1>8, <1>9, <1>10, <1>11 DEF UiInv, DeviceShown, EditShown

\* The type of the driver, or what the button is to do.
LEMMA ButtonStep ==
  ASSUME UiInv, DriverScrolled \/ SplitChosen
  PROVE  UiInv'
<1>1. /\ w \in Window /\ Others /\ Framed /\ ListShown /\ DeviceShown /\ EditShown /\ Allocated
  BY DEF UiInv
<1>2. bad' = bad /\ odd' = odd
  BY DEF DriverScrolled, SplitChosen, Calm
<1>. DEFINE changed == {"type", "use_wcid", "filter", "has_filter", "extract", "label"}
<1>3. \E u \in Window : Click(u, <<>>) /\ u.label = Label(u) /\ Kept(u, w, changed)
  <2>1. CASE DriverScrolled
    <3>1. PICK increment \in {-1, 1} :
            Click(SetInstallButton(UpdateUi(SelectNextDriver(w, increment))), <<>>)
      BY <2>1 DEF DriverScrolled
    <3>. DEFINE a == SelectNextDriver(w, increment)
                b == UpdateUi(a)
                c == SetInstallButton(b)
    <3>2. a \in Window /\ Kept(a, w, {"type", "use_wcid"})
      BY <1>1, NextDriverTyped
    <3>. HIDE DEF a
    <3>3. b \in Window /\ Kept(b, a, {"filter", "has_filter"})
      BY <3>2, UiTyped
    <3>. HIDE DEF b
    <3>4. c \in Window /\ Kept(c, b, {"label"}) /\ c.label = Label(c)
      BY <3>3, ButtonTyped
    <3>. HIDE DEF c
    <3>5. Kept(c, w, changed)
      BY <3>2, <3>3, <3>4 DEF Kept
    <3>. QED
      BY <3>1, <3>4, <3>5 DEF a, b, c
  <2>2. CASE SplitChosen
    <3>1. PICK x \in {"install", "wcid", "filter", "extract"} :
            Click(SetInstallButton([w EXCEPT
                    !.filter = x = "filter",
                    !.use_wcid = x = "wcid" \/ (w.device = NoDev /\ ~w.create),
                    !.extract = x = "extract"]), <<>>)
      BY <2>2 DEF SplitChosen
    <3>. DEFINE filter == x = "filter"
                wcid == x = "wcid" \/ (w.device = NoDev /\ ~w.create)
                extract == x = "extract"
                b == [w EXCEPT !.filter = filter, !.use_wcid = wcid, !.extract = extract]
                c == SetInstallButton(b)
    <3>2. filter \in BOOLEAN /\ wcid \in BOOLEAN /\ extract \in BOOLEAN
      OBVIOUS
    <3>3. Click(c, <<>>)
      BY <3>1
    <3>. HIDE DEF filter, wcid, extract
    <3>4. b \in Window /\ Kept(b, w, {"filter", "use_wcid", "extract"})
      <4>1. [w EXCEPT !.filter = filter, !.use_wcid = wcid] \in Window
        <5>1. [w EXCEPT !.filter = filter] \in Window
          BY <1>1, <3>2, SetFlags
        <5>. QED
          BY <3>2, <5>1, SetFlags
      <4>2. b \in Window
        BY <3>2, <4>1, SetFlags
      <4>. QED
        BY <1>1, <4>2, FieldNames DEF Kept, Fields
    <3>. HIDE DEF b
    <3>5. c \in Window /\ Kept(c, b, {"label"}) /\ c.label = Label(c)
      BY <3>4, ButtonTyped
    <3>. HIDE DEF c
    <3>6. Kept(c, w, changed)
      BY <3>4, <3>5 DEF Kept
    <3>. QED
      BY <3>3, <3>5, <3>6
  <2>. QED
    BY <2>1, <2>2
<1>4. PICK u \in Window : Click(u, <<>>) /\ u.label = Label(u) /\ Kept(u, w, changed)
  BY <1>3
<1>5. /\ u.installing = w.installing /\ u.list = w.list /\ u.device = w.device
      /\ u.edit = w.edit /\ u.items = w.items /\ u.sel = w.sel /\ u.editing = w.editing
      /\ u.editbox = w.editbox /\ u.create = w.create /\ u.menu = w.menu
  BY <1>4 DEF Kept, Fields
<1>6. w' = u /\ queue' = <<>> /\ Others' /\ Framed' /\ Allocated' /\ \A m : ~Posted(m)
  <2>1. odd' \subseteq Oddity
    BY <1>1, <1>2 DEF Others
  <2>2. <<>> \in Seq(Messages) /\ "cancel" \notin Range(<<>>)
    BY NoMessage
  <2>. QED
    BY <1>2, <1>4, <1>5, <2>1, <2>2, Clicked
<1>7. \A m : ~Posted(m)'
  BY <1>6, NoMessage DEF Posted
<1>8. ListShown'
  BY <1>1, <1>5, <1>6 DEF ListShown
<1>9. DeviceShown'
  BY <1>1, <1>2, <1>4, <1>5, <1>6, <1>7 DEF DeviceShown
<1>10. EditShown'
  BY <1>1, <1>2, <1>5, <1>6, <1>7 DEF EditShown
<1>. QED
  BY <1>6, <1>8, <1>9, <1>10 DEF UiInv

\* IDC_EDITNAME
LEMMA EditStep ==
  ASSUME UiInv, EditClicked
  PROVE  UiInv'
<1>1. /\ w \in Window /\ Others /\ Framed /\ ListShown /\ DeviceShown /\ EditShown /\ Allocated
  BY DEF UiInv
<1>. DEFINE v == [w EXCEPT !.editing = ~w.editing]
            u == ToggleEdit(v)
            starts == ~w.editing /\ w.device # NoDev
<1>2. /\ Click(u, <<>>) /\ bad' = bad
      /\ odd' = IF u.sel # w.sel THEN odd \cup {"jumped"} ELSE odd
  BY DEF EditClicked
<1>3. v \in Window /\ Kept(v, w, {"editing"}) /\ v.editing = ~w.editing
  <2>1. (~w.editing) \in BOOLEAN
    OBVIOUS
  <2>. QED
    BY <1>1, <2>1, SetFlags, FieldNames DEF Kept, Fields
<1>. HIDE DEF v
<1>4. v.list = w.list /\ v.device = w.device /\ v.edit = w.edit
  BY <1>3 DEF Kept, Fields
<1>5. /\ u \in Window
      /\ Kept(u, v, {"editbox", "edit", "items", "found", "current", "hwid", "sel"})
      /\ starts => /\ Kept(u, v, {"editbox", "edit"}) /\ u.editbox
                   /\ u.edit = IF w.edit # NoDev THEN w.edit ELSE w.device
      /\ ~starts => /\ u.edit = NoDev /\ u.items = w.list /\ u.sel \in DOMAIN u.items \cup {0}
  <2>1. /\ u \in Window
        /\ v.editing /\ v.device # NoDev =>
             /\ Kept(u, v, {"editbox", "edit"}) /\ u.editbox
             /\ u.edit = IF v.edit # NoDev THEN v.edit ELSE v.device
        /\ ~(v.editing /\ v.device # NoDev) =>
             /\ Kept(u, v, {"editbox", "edit", "items", "found", "current", "hwid", "sel"})
             /\ u.edit = NoDev /\ u.items = v.list /\ u.sel \in DOMAIN u.items \cup {0}
    BY <1>1, <1>3, <1>4, ToggleEditTyped DEF ListShown
  <2>. HIDE DEF u
  <2>2. CASE ~starts
    <3>1. ~(v.editing /\ v.device # NoDev)
      BY <1>3, <1>4, <2>2
    <3>. QED
      BY <1>4, <2>1, <2>2, <3>1
  <2>3. CASE starts
    <3>1. v.editing /\ v.device # NoDev
      BY <1>3, <1>4, <2>3
    <3>2. Kept(u, v, {"editbox", "edit", "items", "found", "current", "hwid", "sel"})
      BY <2>1, <3>1 DEF Kept
    <3>. QED
      BY <1>4, <2>1, <2>3, <3>1, <3>2
  <2>. QED
    BY <2>2, <2>3
<1>. HIDE DEF u
<1>6. /\ u.installing = w.installing /\ u.list = w.list /\ u.device = w.device
      /\ u.create = w.create /\ u.menu = w.menu /\ u.editing = ~w.editing /\ u.label = w.label
      /\ LabelParts(u) = LabelParts(w)
      /\ starts => u.items = w.items /\ u.sel = w.sel
  <2>1. /\ u.installing = w.installing /\ u.list = w.list /\ u.device = w.device
        /\ u.create = w.create /\ u.menu = w.menu /\ u.editing = ~w.editing /\ u.label = w.label
    BY <1>3, <1>5 DEF Kept, Fields
  <2>2. LabelParts(u) = LabelParts(w)
    BY <1>3, <1>5 DEF Kept, Fields, LabelParts
  <2>3. starts => u.items = w.items /\ u.sel = w.sel
    BY <1>3, <1>5 DEF Kept, Fields
  <2>. QED
    BY <2>1, <2>2, <2>3
<1>7. w' = u /\ queue' = <<>> /\ Others' /\ Framed' /\ Allocated' /\ \A m : ~Posted(m)
  <2>1. odd \subseteq odd' /\ odd' \subseteq Oddity
    BY <1>1, <1>2 DEF Others, Oddity
  <2>2. <<>> \in Seq(Messages) /\ "cancel" \notin Range(<<>>)
    BY NoMessage
  <2>3. u.edit \in {w.edit, w.device, NoDev}
    BY <1>5
  <2>. QED
    BY <1>2, <1>5, <1>6, <2>1, <2>2, <2>3, Clicked
<1>8. \A m : ~Posted(m)'
  BY <1>7, NoMessage DEF Posted
<1>9. ListShown'
  <2>1. CASE ~starts
    BY <1>1, <1>5, <1>6, <1>7, <2>1 DEF ListShown
  <2>2. CASE starts
    BY <1>1, <1>2, <1>6, <1>7, <2>2 DEF ListShown
  <2>. QED
    BY <2>1, <2>2
<1>10. DeviceShown'
  <2>1. u.label = Label(u)
    <3>1. w.label = Label(w)
      BY <1>1, <1>7 DEF DeviceShown
    <3>. QED
      BY <1>6, <3>1, LabelDepends
  <2>2. u.device # NoDev /\ "jumped" \notin odd' => u.sel # 0 /\ u.device = u.items[u.sel]
    <3>1. SUFFICES ASSUME u.device # NoDev, "jumped" \notin odd'
                   PROVE  u.sel # 0 /\ u.device = u.items[u.sel]
      OBVIOUS
    <3>2. u.sel = w.sel /\ "jumped" \notin odd
      BY <1>2, <3>1
    <3>3. w.sel # 0 /\ w.device = w.items[w.sel]
      BY <1>1, <1>6, <1>7, <3>1, <3>2 DEF DeviceShown
    <3>4. u.items = w.items
      <4>1. CASE starts
        BY <1>6, <4>1
      <4>2. CASE ~starts
        BY <1>1, <1>5, <1>6, <3>1, <4>2 DEF ListShown
      <4>. QED
        BY <4>1, <4>2
    <3>. QED
      BY <1>6, <3>2, <3>3, <3>4
  <2>. QED
    BY <1>7, <2>1, <2>2 DEF DeviceShown
<1>11. EditShown'
  <2>1. u.edit # NoDev /\ "left" \notin odd' => u.editing /\ u.editbox /\ u.edit = u.device
    <3>1. SUFFICES ASSUME u.edit # NoDev, "left" \notin odd'
                   PROVE  u.editing /\ u.editbox /\ u.edit = u.device
      OBVIOUS
    <3>2. starts /\ "left" \notin odd
      BY <1>2, <1>5, <3>1
    <3>3. w.edit = NoDev
      BY <1>1, <1>7, <3>2 DEF EditShown
    <3>. QED
      BY <1>5, <1>6, <3>2, <3>3
  <2>. QED
    BY <1>1, <1>6, <1>7, <1>8, <2>1 DEF EditShown
<1>. QED
  BY <1>5, <1>7, <1>9, <1>10, <1>11 DEF UiInv

\* The edit that does not start, and what is typed.
LEMMA TypedStep ==
  ASSUME UiInv, EditRefused \/ Typed
  PROVE  UiInv'
<1>1. /\ w \in Window /\ Others /\ Framed /\ ListShown /\ DeviceShown /\ EditShown /\ Allocated
  BY DEF UiInv
<1>2. CASE EditRefused
  <2>1. /\ queue' = queue /\ stack' = stack /\ Spend("faults") /\ w.edit = NoDev
        /\ w' = [w EXCEPT !.editbox = FALSE]
        /\ UNCHANGED <<thid, delay, world, alive, bad, odd>>
    BY <1>2 DEF EditRefused
  <2>2. w' \in Window /\ Kept(w', w, {"editbox"})
    BY <1>1, <2>1, SetFlags, FieldNames DEF Kept, Fields
  <2>3. /\ w'.installing = w.installing /\ w'.list = w.list /\ w'.device = w.device
        /\ w'.edit = w.edit /\ w'.items = w.items /\ w'.sel = w.sel /\ w'.editing = w.editing
        /\ w'.create = w.create /\ w'.menu = w.menu /\ w'.label = w.label
        /\ LabelParts(w') = LabelParts(w)
    <3>1. LabelParts(w') = LabelParts(w)
      BY <2>2 DEF Kept, Fields, LabelParts
    <3>. QED
      BY <2>2, <3>1 DEF Kept, Fields
  <2>4. left' \in Budget
    BY <1>1, <2>1, SpendTyped DEF Others
  <2>5. Others'
    BY <1>1, <2>1, <2>4 DEF Others
  <2>6. stack' \in Seq(Frame) /\ Framed' /\ Referring
    <3>1. StackCalm
      BY <2>1 DEF StackCalm
    <3>. QED
      BY <1>1, <2>1, <2>3, <3>1, CalmFrames DEF Others, Framed, Posted
  <2>7. Allocated'
    BY <1>1, <2>1, <2>3, <2>6, AllocKept DEF Posted
  <2>8. ListShown'
    BY <1>1, <2>3 DEF ListShown
  <2>9. Label(w') = Label(w)
    BY <2>3, LabelDepends
  <2>10. DeviceShown'
    BY <1>1, <2>1, <2>3, <2>9 DEF DeviceShown, Posted
  <2>11. EditShown'
    BY <1>1, <2>1, <2>3 DEF EditShown
  <2>. QED
    BY <2>2, <2>5, <2>6, <2>7, <2>8, <2>10, <2>11 DEF UiInv
<1>3. CASE Typed
  <2>1. /\ w.edit # NoDev /\ bad' = (bad \/ w.edit.gen \notin alive)
        /\ UNCHANGED <<w, queue, stack, thid, delay, world, alive, odd, left>>
    BY <1>3 DEF Typed
  <2>2. bad' \in BOOLEAN /\ (bad' = bad \/ odd \cap {"refused", "closing"} # {})
    <3>1. odd \cap {"refused", "closing"} = {} => w.edit.gen \in alive
      BY <1>1, <2>1 DEF Allocated, Lives
    <3>2. bad \in BOOLEAN
      BY <1>1 DEF Others
    <3>. QED
      BY <2>1, <3>1, <3>2
  <2>3. Others'
    BY <1>1, <2>1, <2>2 DEF Others
  <2>4. stack' \in Seq(Frame) /\ Framed' /\ Referring
    <3>1. StackCalm
      BY <2>1 DEF StackCalm
    <3>. QED
      BY <1>1, <2>1, <3>1, CalmFrames DEF Others, Framed, Posted
  <2>5. SameMessages(queue', queue) /\ Kept(w', w, Unseen) /\ w' \in Window
        /\ odd \ {"missed"} \subseteq odd'
    BY <1>1, <2>1 DEF SameMessages, Others, Kept
  <2>. QED
    BY <2>1, <2>2, <2>3, <2>4, <2>5, InstallKeeps
<1>. QED
  BY <1>2, <1>3

\* init_dialog finds a driver to start with.
LEMMA FirstIsSupported ==
  Types[SelectInSeq(Types, LAMBDA t : t \in Supported)] \in Range(Types)
<1>. DEFINE I == {i \in 1..Len(Types) : Types[i] \in Supported}
<1>1. Range(Types) = {Types[i] : i \in 1..Len(Types)} /\ Len(Types) \in Nat
  BY ZadigAssumption, RangeEquality, LenProperties
<1>2. I # {} /\ I \in SUBSET Nat
  BY <1>1, ZadigAssumption
<1>3. SelectInSeq(Types, LAMBDA t : t \in Supported) = Min(I)
  BY <1>2 DEF SelectInSeq
<1>4. Min(I) \in I
  <2>. HIDE DEF I
  <2>. QED
    BY <1>2, LeastOf DEF Min
<1>. QED
  BY <1>1, <1>3, <1>4

\* The invariant holds at first.
LEMMA UiStarts ==
  ASSUME UiInit
  PROVE  UiInv
<1>. DEFINE type == Types[SelectInSeq(Types, LAMBDA t : t \in Supported)]
            v == [list |-> <<>>, device |-> NoDev, items |-> <<>>, sel |-> 0, current |-> 0,
                  hwid |-> 0, edit |-> NoDev, editing |-> FALSE, editbox |-> FALSE,
                  create |-> FALSE, menu |-> FALSE, found |-> FALSE, replace |-> FALSE,
                  wcid |-> "none", wtype |-> "user", use_wcid |-> FALSE, type |-> type,
                  filter |-> FALSE, has_filter |-> FALSE, extract |-> left.extract, all |-> left.all,
                  hubs |-> left.hubs, from_install |-> FALSE, installing |-> FALSE,
                  label |-> <<"", "Install">>]
<1>1. /\ w = SetDriver(v) /\ queue = <<"refresh">> /\ stack = <<>> /\ thid = FALSE /\ delay = FALSE
      /\ world \in World /\ alive = {} /\ bad = FALSE /\ odd = {} /\ left \in Budget
  BY ZadigAssumption DEF UiInit
<1>2. /\ type \in Range(Types) /\ "user" \in Range(Types) /\ <<>> \in Seq(Rec) /\ Len(<<>>) = 0
      /\ 0 \in 0..Hw /\ NoDev \in Rec /\ <<"", "Install">> \in Labels
  <2>1. type \in Range(Types)
    BY FirstIsSupported
  <2>. HIDE DEF type
  <2>2. "user" \in Range(Types)
    BY ZadigAssumption
  <2>3. <<>> \in Seq(Rec) /\ Len(<<>>) = 0
    BY EmptySeq
  <2>4. 0 \in 0..Hw
    BY DevicesCounted
  <2>5. <<"", "Install">> \in Labels
    BY DEF Labels
  <2>. QED
    BY <2>1, <2>2, <2>3, <2>4, <2>5, NoDevTyped
<1>. HIDE DEF type
<1>3. v \in Window
  <2>1. {left.extract, left.all, left.hubs} \subseteq BOOLEAN
    BY <1>1 DEF Budget
  <2>. QED
    BY <1>2, <2>1 DEF Window, Labels
<1>4. /\ v.list = <<>> /\ v.items = <<>> /\ v.sel = 0 /\ v.device = NoDev /\ v.edit = NoDev
      /\ ~v.editing /\ v.create = v.menu /\ ~v.installing
  OBVIOUS
<1>. HIDE DEF v
<1>5. w \in Window /\ Kept(w, v, {"use_wcid"})
  BY <1>1, <1>3, DriverTyped
<1>6. /\ w.list = <<>> /\ w.items = <<>> /\ w.sel = 0 /\ w.device = NoDev /\ w.edit = NoDev
      /\ ~w.editing /\ w.create = w.menu /\ ~w.installing
  BY <1>4, <1>5 DEF Kept, Fields
<1>7. queue \in Seq(Messages) /\ Range(queue) = {"refresh"}
  BY <1>1, OneMessage DEF Messages
<1>8. Others
  <2>1. <<>> \in Seq(Frame) /\ IsFiniteSet({})
    BY EmptySeq, FS_EmptySet
  <2>. QED
    BY <1>1, <1>7, <2>1 DEF Others
<1>9. Framed /\ Allocated
  BY <1>1, <1>6, <1>7 DEF Framed, Allocated, Posted, Lives, Freed, Range
<1>10. ListShown
  <2>1. Len(w.list) = 0
    BY <1>2, <1>6, ZenonT(60)
  <2>2. Len(w.list) <= Hw
    BY <2>1, DevicesCounted
  <2>. QED
    BY <1>6, <2>2 DEF ListShown
<1>11. DeviceShown /\ EditShown
  BY <1>6, <1>7 DEF DeviceShown, EditShown, Posted
<1>. QED
  BY <1>5, <1>8, <1>9, <1>10, <1>11 DEF UiInv

\* Every step keeps it.
LEMMA UiStep ==
  ASSUME UiInv, [Next]_vars
  PROVE  UiInv'
<1>1. CASE Messaging
  BY <1>1, CalmMessages, EventCalm, BesidesStep, RefreshStep, SelChangeStep, CancelStep DEF Messaging
<1>2. CASE Returning
  BY <1>2, EventAnsweredStep, WarnedStep, InstallReturnsStep, CalmBoxes, BesidesStep, FileStep
  DEF Returning
<1>3. CASE User
  BY <1>3, InstallClickedStep, SelectStep, EditStep, TypedStep, CreateStep, ListStep, ButtonStep,
     CalmBoxes, BesidesStep DEF User
<1>4. CASE DelayEnds \/ Plugged \/ SettingsOpened \/ SettingsClosed
  BY <1>4, CalmMessages, CalmBoxes, BesidesStep
<1>5. CASE \/ CheckNow \/ DownloadClicked \/ AbortClicked \/ LaunchClicked
           \/ \E c \in Checker : Checking(c) \/ DialogClosed(c) \/ Launched(c)
           \/ \E d \in Loader : Downloading(d)
  BY <1>5, CalmThreads, BesidesStep
<1>6. CASE UNCHANGED vars
  <2>1. Others
    BY DEF UiInv
  <2>2. Besides
    BY <1>6, <2>1, SameCalm DEF vars, uiVars, Besides, Others, StackCalm
  <2>. QED
    BY <2>2, BesidesStep
<1>. QED
  BY <1>1, <1>2, <1>3, <1>4, <1>5, <1>6 DEF Next

\* ZadigUpdate.TypeOK: every variable has its type.
THEOREM ZadigTypeCorrect == Spec => []TypeOK
<1>1. Init => UiInv /\ LoadInv
  BY UiStarts, LoadsInit DEF Init
<1>2. UiInv /\ LoadInv /\ [Next]_vars => (UiInv /\ LoadInv)'
  BY UiStep, LoadsStep
<1>3. UiInv /\ LoadInv => TypeOK
  BY DEF UiInv, Others, LoadInv, TypeOK, UiTypeOK
<1>. QED
  BY <1>1, <1>2, <1>3, PTL DEF Spec

\* The invariant of the user interface holds always.
LEMMA UiHolds == Spec => []UiInv
<1>1. Init => UiInv
  BY UiStarts DEF Init
<1>2. UiInv /\ [Next]_vars => UiInv'
  BY UiStep
<1>. QED
  BY <1>1, <1>2, PTL DEF Spec

\* Zadig.ShownIsInstalled: what the button installs is what the window shows, and its text
\* tells what it does, when the user can press it.
THEOREM ShownDeviceIsInstalled == Spec => []ShownIsInstalled
<1>1. UiInv => ShownIsInstalled
  <2>1. CanInput => ~Posted("refresh") /\ ~Posted("selchange")
    BY DEF CanInput, Posted, Range
  <2>. QED
    BY <2>1 DEF UiInv, DeviceShown, ShownIsInstalled
<1>. QED
  BY <1>1, UiHolds, PTL

\* Zadig.ModesAgree: the mode of the window is the one its menu tells, and the description
\* that is edited is that of the device that is selected.
THEOREM ModesOfTheWindowAgree == Spec => []ModesAgree
<1>1. UiInv => ModesAgree
  <2>1. CanInput => ~Posted("refresh")
    BY DEF CanInput, Posted, Range
  <2>. QED
    BY <2>1 DEF UiInv, EditShown, ModesAgree
<1>. QED
  BY <1>1, UiHolds, PTL

\* Zadig.NoUseAfterFree: no record of a list that was freed is used, unless wdi_create_list was
\* refused or the program ends.
THEOREM FreedIsNotUsed == Spec => []NoUseAfterFree
<1>1. UiInv => NoUseAfterFree
  BY DEF UiInv, Allocated, NoUseAfterFree
<1>. QED
  BY <1>1, UiHolds, PTL

\* An installation runs exactly while one of its boxes is under all others, there is never a
\* second one, and no refresh of the list waits for it: what NOT_DURING_INSTALL keeps out is
\* never the refresh.
THEOREM InstallationIsAlone == Spec => []Framed
<1>1. UiInv => Framed
  BY DEF UiInv
<1>. QED
  BY <1>1, UiHolds, PTL

--------------------------------------------------------------------------------
(* The changes of the devices.                                                  *)

\* What is going to refresh the list, or to ask whether it may.
Heralds == {"devicechange", "deviceevent", "refresh"}
Asking == \E i \in DOMAIN stack : stack[i].kind = "event"
Coming == delay \/ Asking \/ \E m \in Heralds : Posted(m)

\* The inductive invariant of the notifications: the window shows the list unless that was
\* refused, the thread that delays a notification is still to be heard of while its handle is
\* kept, and a list that is out of date is going to be refreshed.
HearInv ==
  /\ "refused" \notin odd => w.items = w.list
  /\ thid => delay \/ Posted("deviceevent") \/ "dropped" \in odd
  /\ UpToDate \/ Coming \/ odd \cap Unheard # {}

\* The list and its options stay, and the items too, or they are filled in again.
ListKept(v) ==
  v.list = w.list /\ v.items \in {w.items, w.list} /\ v.all = w.all /\ v.hubs = w.hubs

\* The same devices and options make the same list.
LEMMA ListingKept ==
  ASSUME world' = world, w'.all = w.all, w'.hubs = w.hubs
  PROVE  Listing(0, w)' = Listing(0, w)
<1>. DEFINE S == {h \in 1..Hw : /\ world[h].plugged
                                /\ world[h].driver = "none" \/ w.all
                                /\ world[h].driver = "hub" => w.hubs}
            F(T) == [i \in 1..Cardinality(T) |->
                       CHOOSE h \in T : Cardinality({k \in T : k <= h}) = i]
            G(L, all) == [i \in DOMAIN L |-> [gen |-> 0, hw |-> L[i], driver |-> all[L[i]].driver,
                                              filtered |-> all[L[i]].filtered]]
<1>1. S' = S
  OBVIOUS
<1>2. Listed(w) = F(S) /\ Listed(w)' = F(S')
  BY DEF Listed
<1>3. Listing(0, w) = G(Listed(w), world) /\ Listing(0, w)' = G(Listed(w)', world')
  BY DEF Listing
<1>. HIDE DEF S, F, G
<1>. QED
  BY <1>1, <1>2, <1>3

\* A list that was just made is up to date, whatever its number.
LEMMA ListingShown ==
  ASSUME world' = world, w'.all = w.all, w'.hubs = w.hubs, NEW g, w'.items = Listing(g, w)
  PROVE  UpToDate'
<1>1. [i \in DOMAIN w'.items |-> [w'.items[i] EXCEPT !.gen = 0]] = Listing(0, w)
  BY DEF Listing
<1>. QED
  BY <1>1, ListingKept DEF UpToDate

\* A step that leaves the devices and the list alone, and nothing that is to be heard out.
LEMMA QuietKept ==
  ASSUME HearInv, ListKept(w'), UNCHANGED <<thid, delay, world>>,
         \A m \in Heralds : Posted(m) => Posted(m)', Asking => Asking',
         odd \ {"left", "jumped"} \subseteq odd'
  PROVE  HearInv'
<1>1. "refused" \notin odd' => w'.items = w'.list
  BY DEF HearInv, ListKept
<1>2. thid' => delay' \/ Posted("deviceevent")' \/ "dropped" \in odd'
  BY DEF HearInv, Heralds
<1>3. CASE odd \cap Unheard # {}
  BY <1>1, <1>2, <1>3 DEF HearInv, Unheard
<1>4. CASE Coming
  BY <1>1, <1>2, <1>4 DEF HearInv, Coming
<1>5. CASE UpToDate /\ odd \cap Unheard = {}
  <2>1. w'.items = w.items
    BY <1>5 DEF HearInv, ListKept, Unheard
  <2>2. Listing(0, w)' = Listing(0, w)
    BY ListingKept DEF ListKept
  <2>3. UpToDate'
    BY <1>5, <2>1, <2>2 DEF UpToDate
  <2>. QED
    BY <1>1, <1>2, <2>3 DEF HearInv
<1>. QED
  BY <1>3, <1>4, <1>5 DEF HearInv

\* The question stays when a box is opened, or another one is closed.
LEMMA AskingStays ==
  ASSUME stack \in Seq(Frame),
         \/ stack' = stack
         \/ \E f \in Frame : stack' = Append(stack, f)
         \/ stack # <<>> /\ Top.kind # "event" /\ stack' = Front(stack)
  PROVE  Asking => Asking'
<1>. SUFFICES ASSUME NEW i \in DOMAIN stack, stack[i].kind = "event" PROVE Asking'
  BY DEF Asking
<1>1. i \in 1..Len(stack) /\ Len(stack) \in Nat
  BY Stacked
<1>2. CASE stack' = stack
  BY <1>2 DEF Asking
<1>3. ASSUME NEW f \in Frame, stack' = Append(stack, f) PROVE Asking'
  <2>1. stack'[i] = stack[i] /\ DOMAIN stack' = 1..(Len(stack) + 1)
    BY <1>1, <1>3, Stacked
  <2>2. i \in 1..(Len(stack) + 1)
    BY <1>1
  <2>. QED
    BY <2>1, <2>2 DEF Asking
<1>4. CASE stack # <<>> /\ Top.kind # "event" /\ stack' = Front(stack)
  <2>1. i # Len(stack)
    BY <1>4, Stacked DEF Top
  <2>2. i \in 1..(Len(stack) - 1)
    BY <1>1, <2>1
  <2>3. stack'[i] = stack[i] /\ DOMAIN stack' = 1..(Len(stack) - 1)
    BY <1>4, <2>2, Stacked
  <2>. QED
    BY <2>2, <2>3 DEF Asking
<1>. QED
  BY <1>2, <1>3, <1>4

\* The messages that no one waits for.
LEMMA OthersHandled ==
  ASSUME queue \in Seq(Messages), NEW m \in Messages \ Heralds, Handle(m),
         \/ queue' = Rest
         \/ \E n \in Messages : queue' = Append(Rest, n)
  PROVE  \A h \in Heralds : Posted(h) => Posted(h)'
<1>1. Rest \in Seq(Messages) /\ Range(queue) = Range(Rest) \cup {m}
  BY Queued DEF Handle, Rest
<1>2. CASE queue' = Rest
  <2>. HIDE DEF Rest
  <2>. QED
    BY <1>1, <1>2 DEF Posted
<1>3. ASSUME NEW n \in Messages, queue' = Append(Rest, n)
      PROVE  \A h \in Heralds : Posted(h) => Posted(h)'
  <2>. HIDE DEF Rest
  <2>1. Range(queue') = Range(Rest) \cup {n}
    BY <1>1, <1>3, Queued
  <2>. QED
    BY <1>1, <2>1 DEF Posted
<1>. QED
  BY <1>2, <1>3

\* A message is posted, or none is.
LEMMA MorePosted ==
  ASSUME queue \in Seq(Messages), queue' = queue \/ \E n \in Messages : queue' = Append(queue, n)
  PROVE  \A h \in Heralds : Posted(h) => Posted(h)'
<1>1. Range(queue) \subseteq Range(queue')
  BY Queued
<1>. QED
  BY <1>1 DEF Posted

\* WM_DEVICECHANGE, the end of the delay, and UM_DEVICE_EVENT.
LEMMA HeraldsHeard ==
  ASSUME UiInv, HearInv, DeviceChange \/ DelayEnds \/ DeviceEvent
  PROVE  HearInv'
<1>1. Others
  BY DEF UiInv
<1>2. /\ UNCHANGED <<w, world>> /\ odd \subseteq odd'
      /\ "refused" \in odd' => "refused" \in odd
  <2>1. /\ UNCHANGED <<w, world>>
        /\ odd' \in {odd, odd \cup {"missed"}, odd \cup {"thread"}, odd \cup {"dropped"}}
    BY DEF DeviceChange, DelayEnds, DeviceEvent
  <2>. QED
    BY <2>1
<1>3. "refused" \notin odd' => w'.items = w'.list
  BY <1>2 DEF HearInv
<1>4. CASE DeviceChange
  <2>1. \A h \in Heralds \ {"devicechange"} : Posted(h) => Posted(h)'
    <3>1. Range(queue) = Range(Rest) \cup {"devicechange"} /\ queue' = Rest
      BY <1>1, <1>4, Queued DEF DeviceChange, Handle, Rest, Others
    <3>. HIDE DEF Rest
    <3>. QED
      BY <3>1 DEF Posted
  <2>2. \/ "missed" \in odd' /\ UNCHANGED <<thid, delay>>
        \/ thid /\ UNCHANGED <<thid, delay>>
        \/ delay'
        \/ "thread" \in odd' /\ UNCHANGED <<thid, delay>>
    BY <1>4 DEF DeviceChange
  <2>3. thid' => delay' \/ Posted("deviceevent")' \/ "dropped" \in odd'
    BY <1>2, <2>1, <2>2 DEF HearInv, Heralds
  <2>4. Coming' \/ odd' \cap Unheard # {}
    BY <2>2, <2>3 DEF Coming, Unheard, Heralds
  <2>. QED
    BY <1>3, <2>3, <2>4 DEF HearInv
<1>5. CASE DelayEnds
  <2>1. "deviceevent" \in Messages
    BY DEF Messages
  <2>2. Range(queue') = Range(queue) \cup {"deviceevent"}
    BY <1>1, <1>5, <2>1, Queued DEF DelayEnds, Post, Others
  <2>3. Posted("deviceevent")'
    BY <2>2 DEF Posted
  <2>4. Coming'
    BY <2>3 DEF Coming, Heralds
  <2>. QED
    BY <1>3, <2>3, <2>4 DEF HearInv
<1>6. CASE DeviceEvent
  <2>1. CASE w.installing
    <3>1. "dropped" \in odd'
      BY <1>6, <2>1 DEF DeviceEvent
    <3>. QED
      BY <1>3, <3>1 DEF HearInv, Unheard
  <2>2. CASE ~w.installing
    <3>1. /\ thid' = FALSE /\ Handle("deviceevent")
          /\ \/ stack' = Push("event", NoDev, FALSE, FALSE)
             \/ queue' = Append(Rest, "refresh")
      BY <1>6, <2>2 DEF DeviceEvent
    <3>2. CASE stack' = Push("event", NoDev, FALSE, FALSE)
      <4>. DEFINE f == [kind |-> "event", dev |-> NoDev, own |-> FALSE, ok |-> FALSE]
      <4>1. f \in Frame /\ f.kind = "event"
        BY NoDevTyped DEF Frame
      <4>2. stack' = Append(stack, f)
        BY <3>2 DEF Push
      <4>. HIDE DEF f
      <4>3. stack'[Len(stack) + 1] = f /\ Len(stack) + 1 \in DOMAIN stack'
        BY <1>1, <4>1, <4>2, Stacked DEF Others
      <4>4. Coming'
        BY <4>1, <4>3 DEF Coming, Asking
      <4>. QED
        BY <1>3, <3>1, <4>4 DEF HearInv
    <3>3. CASE queue' = Append(Rest, "refresh")
      <4>1. Rest \in Seq(Messages) /\ "refresh" \in Messages
        BY <1>1, <3>1, Queued DEF Handle, Rest, Others, Messages
      <4>2. Posted("refresh")'
        <5>. HIDE DEF Rest
        <5>. QED
          BY <3>3, <4>1, Queued DEF Posted
      <4>3. Coming'
        BY <4>2 DEF Coming, Heralds
      <4>. QED
        BY <1>3, <3>1, <4>3 DEF HearInv
    <3>. QED
      BY <3>1, <3>2, <3>3
  <2>. QED
    BY <2>1, <2>2
<1>. QED
  BY <1>4, <1>5, <1>6

\* The messages that leave the list alone.
LEMMA MessageQuiet ==
  ASSUME UiInv, HearInv, SelChange \/ Close \/ Cancel \/ NoUpdate
  PROVE  HearInv'
<1>1. w \in Window /\ Others /\ ListShown
  BY DEF UiInv
<1>2. ListKept(w')
  <2>1. CASE SelChange
    <3>1. w' = SelChanged(w)
      BY <2>1 DEF SelChange
    <3>2. Kept(w', w, {"device", "current", "replace", "wcid", "use_wcid", "wtype", "type",
                       "filter", "has_filter", "label"})
      BY <1>1, <3>1, SelChangedTyped DEF ListShown
    <3>. QED
      BY <3>2 DEF Kept, Fields, ListKept
  <2>2. CASE w' = w
    BY <2>2 DEF ListKept
  <2>. QED
    BY <2>1, <2>2 DEF Close, Cancel, NoUpdate
<1>3. \A h \in Heralds : Posted(h) => Posted(h)'
  <2>1. PICK m \in {"selchange", "close", "cancel", "noupdate"} :
          Handle(m) /\ (queue' = Rest \/ queue' = Append(Rest, "cancel"))
    BY DEF SelChange, Close, Cancel, NoUpdate
  <2>2. m \in Messages \ Heralds /\ "cancel" \in Messages
    BY <2>1 DEF Messages, Heralds
  <2>. QED
    BY <1>1, <2>1, <2>2, OthersHandled DEF Others
<1>4. Asking => Asking'
  <2>1. CASE stack' = stack
    BY <2>1 DEF Asking
  <2>2. CASE NoUpdate
    <3>. DEFINE f == [kind |-> "notice", dev |-> NoDev, own |-> FALSE, ok |-> FALSE]
    <3>1. f \in Frame
      BY NoDevTyped DEF Frame
    <3>2. stack' = Append(stack, f)
      BY <2>2 DEF NoUpdate, Push
    <3>. HIDE DEF f
    <3>. QED
      BY <1>1, <3>1, <3>2, AskingStays DEF Others
  <2>. QED
    BY <2>1, <2>2 DEF SelChange, Close, Cancel
<1>5. UNCHANGED <<thid, delay, world>> /\ odd \ {"left", "jumped"} \subseteq odd'
  BY DEF SelChange, Close, Cancel, NoUpdate
<1>. QED
  BY <1>2, <1>3, <1>4, <1>5, QuietKept

\* UM_REFRESH_LIST
LEMMA RefreshHears ==
  ASSUME UiInv, HearInv, RefreshList
  PROVE  HearInv'
<1>1. w \in Window /\ Others /\ Framed /\ ListShown
  BY DEF UiInv
<1>2. /\ Rest \in Seq(Messages) /\ Range(queue) = Range(Rest) \cup {"refresh"} /\ Posted("refresh")
      /\ UNCHANGED <<stack, thid, delay, world>>
  <2>1. Rest \in Seq(Messages) /\ Range(queue) = Range(Rest) \cup {"refresh"}
    BY <1>1, Queued DEF RefreshList, Handle, Rest, Others
  <2>. QED
    BY <2>1 DEF Posted, RefreshList
<1>. HIDE DEF Rest
<1>3. ~w.installing
  BY <1>1, <1>2 DEF Framed
<1>. DEFINE g == Fresh
            v(created) == [w EXCEPT !.editing = FALSE, !.filter = FALSE, !.from_install = FALSE,
                                    !.editbox = IF w.editing THEN FALSE ELSE @,
                                    !.current = IF w.from_install THEN @ ELSE 1,
                                    !.edit = NoDev, !.device = NoDev,
                                    !.list = NewList(g, created)]
            bare(created) == SetInstallButton(UpdateUi(
                               [v(created) EXCEPT !.found = FALSE, !.items = <<>>, !.sel = 0,
                                                  !.wcid = "none", !.use_wcid = TRUE]))
<1>4. \E destroyed, created \in BOOLEAN :
        /\ odd' = (odd \ {"left"}) \cup IF created THEN {} ELSE {"refused"}
        /\ IF created /\ Listing(g, w) # <<>>
           THEN w' = DisplayDevices(v(created)) /\ queue' = Append(Rest, "selchange")
           ELSE w' = bare(created) /\ queue' = Rest
  BY <1>3, ZenonT(60) DEF RefreshList
<1>5. PICK destroyed \in BOOLEAN, created \in BOOLEAN :
        /\ odd' = (odd \ {"left"}) \cup IF created THEN {} ELSE {"refused"}
        /\ IF created /\ Listing(g, w) # <<>>
           THEN w' = DisplayDevices(v(created)) /\ queue' = Append(Rest, "selchange")
           ELSE w' = bare(created) /\ queue' = Rest
  BY <1>4, Zenon
<1>6. /\ w'.list = NewList(g, created) /\ w'.all = w.all /\ w'.hubs = w.hubs
      /\ \/ created /\ Listing(g, w) # <<>> /\ w'.items = w'.list
         \/ ~(created /\ Listing(g, w) # <<>>) /\ w'.items = <<>>
  <2>1. g \in Nat
    <3>1. UiTypeOK /\ IsFiniteSet(alive)
      BY <1>1 DEF Others, UiTypeOK
    <3>. QED
      BY <3>1, FreshIsFresh
  <2>2. /\ g \in Nat /\ world \in World /\ Len(w.list) <= Hw
        /\ IF created /\ Listing(g, w) # <<>> THEN w' = DisplayDevices(v(created))
                                              ELSE w' = bare(created)
    <3>. HIDE DEF g, v, bare
    <3>. QED
      BY <1>1, <1>5, <2>1 DEF Others, ListShown
  <2>. HIDE DEF g
  <2>. QED
    BY <1>1, <2>2, RefreshedTyped, Zenon
<1>. HIDE DEF g, v, bare
<1>7. \A h \in Heralds \ {"refresh"} : Posted(h) => Posted(h)'
  <2>1. "selchange" \in Messages
    BY DEF Messages
  <2>2. Range(Rest) \subseteq Range(queue')
    <3>1. CASE queue' = Rest
      BY <3>1
    <3>2. CASE queue' = Append(Rest, "selchange")
      BY <1>2, <2>1, <3>2, Queued
    <3>. QED
      BY <1>5, <3>1, <3>2
  <2>. QED
    BY <1>2, <2>2 DEF Posted
<1>8. thid' => delay' \/ Posted("deviceevent")' \/ "dropped" \in odd'
  BY <1>2, <1>5, <1>7 DEF HearInv, Heralds
<1>9. CASE created
  <2>1. w'.items = Listing(g, w) /\ w'.list = Listing(g, w)
    BY <1>6, <1>9 DEF NewList
  <2>2. UpToDate'
    BY <1>2, <1>6, <2>1, ListingShown
  <2>. QED
    BY <1>8, <2>1, <2>2 DEF HearInv
<1>10. CASE ~created
  <2>1. "refused" \in odd'
    BY <1>5, <1>10
  <2>. QED
    BY <1>8, <2>1 DEF HearInv, Unheard
<1>. QED
  BY <1>9, <1>10

\* The user answers whether the list may be refreshed.
LEMMA AnswerHears ==
  ASSUME UiInv, HearInv, EventAnswered
  PROVE  HearInv'
<1>1. w \in Window /\ Others /\ ListShown /\ EditShown
  BY DEF UiInv
<1>2. UNCHANGED <<thid, delay, world>> /\ (\A h \in Heralds : Posted(h) => Posted(h)')
  <2>1. "refresh" \in Messages /\ (queue' = queue \/ queue' = Append(queue, "refresh"))
    BY DEF EventAnswered, Messages, Post
  <2>2. \A h \in Heralds : Posted(h) => Posted(h)'
    BY <1>1, <2>1, MorePosted DEF Others
  <2>. QED
    BY <2>2 DEF EventAnswered
<1>3. CASE /\ w' = [(IF w.create THEN ToggleCreate(w) ELSE w)
                      EXCEPT !.menu = FALSE, !.editbox = FALSE]
           /\ queue' = Post("refresh") /\ odd' = odd
  <2>1. Posted("refresh")'
    <3>1. "refresh" \in Messages
      BY DEF Messages
    <3>. QED
      BY <1>1, <1>3, <3>1, Queued DEF Posted, Post, Others
  <2>2. w'.items = w.items /\ w'.list = w.list
    <3>. DEFINE u == IF w.create THEN ToggleCreate(w) ELSE w
    <3>1. u.items = w.items /\ u.list = w.list /\ u \in Window
      <4>1. CASE w.create
        <5>1. ToggleCreate(w) \in Window
              /\ Kept(ToggleCreate(w), w,
                      {"editbox", "create", "menu", "use_wcid", "replace", "label"})
          BY <1>1, <4>1, ToggleCreateTyped DEF ListShown, EditShown
        <5>. QED
          BY <4>1, <5>1 DEF Kept, Fields
      <4>2. CASE ~w.create
        BY <1>1, <4>2
      <4>. QED
        BY <4>1, <4>2
    <3>2. w' = [u EXCEPT !.menu = FALSE, !.editbox = FALSE]
      BY <1>3
    <3>. HIDE DEF u
    <3>. QED
      BY <3>1, <3>2, FieldNames DEF Fields
  <2>3. Coming'
    BY <2>1 DEF Coming, Heralds
  <2>. QED
    BY <1>2, <1>3, <2>2, <2>3 DEF HearInv, Heralds
<1>4. CASE odd' = odd \cup {"declined"} /\ UNCHANGED <<w, queue>>
  BY <1>2, <1>4 DEF HearInv, Heralds, Unheard
<1>. QED
  BY <1>3, <1>4 DEF EventAnswered

\* While an installation runs, no one asks.
LEMMA NotAsking ==
  ASSUME Framed, w.installing
  PROVE  ~Asking
  BY DEF Framed, Asking

\* The window stays, but for its flags of an installation.
LEMMA EndQuiet ==
  ASSUME NEW v \in Window, Kept(v, w, {"installing", "hwid"}),
         NEW frames, NEW result, EndInstall(v, frames, queue, result)
  PROVE  ListKept(w') /\ (queue' = queue \/ queue' = Append(queue, "close"))
<1>1. w' = [v EXCEPT !.from_install = TRUE, !.installing = FALSE]
      /\ (queue' = queue \/ queue' = Append(queue, "close"))
  BY DEF EndInstall
<1>2. /\ w'.list = v.list /\ w'.items = v.items /\ w'.all = v.all /\ w'.hubs = v.hubs
  BY <1>1, FieldNames DEF Fields
<1>3. v.list = w.list /\ v.items = w.items /\ v.all = w.all /\ v.hubs = w.hubs
  BY DEF Kept, Fields
<1>. QED
  BY <1>1, <1>2, <1>3 DEF ListKept

\* The boxes before the installation.
LEMMA WarnedQuiet ==
  ASSUME UiInv, HearInv, Warned \/ SystemWarned
  PROVE  HearInv'
<1>1. w \in Window /\ Others /\ Framed
  BY DEF UiInv
<1>2. ~Asking
  <2>1. stack # <<>> /\ Top.kind \in Busy
    BY DEF Warned, SystemWarned, Busy
  <2>. QED
    BY <1>1, <2>1, Installing, NotAsking
<1>3. UNCHANGED <<thid, delay, world, odd>>
  BY DEF Warned, SystemWarned
<1>4. Kept(w, w, {"installing", "hwid"})
  BY DEF Kept
<1>5. ListKept(w') /\ (queue' = queue \/ queue' = Append(queue, "close"))
  <2>1. \/ w' = w /\ queue' = queue
        \/ \E result \in BOOLEAN : EndInstall(w, Front(stack), queue, result)
    BY DEF Warned, SystemWarned, Prepare
  <2>2. CASE w' = w /\ queue' = queue
    BY <2>2 DEF ListKept
  <2>. QED
    BY <1>1, <1>4, <2>1, <2>2, EndQuiet
<1>6. \A h \in Heralds : Posted(h) => Posted(h)'
  <2>1. "close" \in Messages
    BY DEF Messages
  <2>. QED
    BY <1>1, <1>5, <2>1, MorePosted DEF Others
<1>. QED
  BY <1>2, <1>3, <1>5, <1>6, QuietKept

\* The installation returns: a notification is posted.
LEMMA InstallHears ==
  ASSUME UiInv, HearInv, InstallReturns
  PROVE  HearInv'
<1>1. w \in Window /\ Others /\ Framed /\ ListShown /\ EditShown
  BY DEF UiInv
<1>. DEFINE v == [w EXCEPT !.hwid = Top.dev.hw]
            shown(listAll) == IF listAll THEN ToggleList(v, FALSE) ELSE v
            posted(listAll) == IF listAll /\ w.create THEN queue \o Refreshes(w) ELSE queue
<1>2. PICK result \in BOOLEAN, listAll \in BOOLEAN :
        /\ odd' = (odd \ {"missed"})
                    \cup (IF listAll /\ shown(listAll).edit # NoDev THEN {"left"} ELSE {})
        /\ EndInstall(shown(listAll), Front(stack), Append(posted(listAll), "devicechange"), result)
        /\ UNCHANGED <<thid, delay>>
  BY DEF InstallReturns
<1>. DEFINE u == shown(listAll)
<1>3. v \in Window /\ Kept(v, w, {"hwid"})
  <2>1. Top.dev.hw \in 0..Hw
    <3>1. stack # <<>>
      BY DEF InstallReturns
    <3>2. Top \in Frame
      BY <1>1, <3>1, Stacked DEF Others, Top
    <3>. QED
      BY <3>2 DEF Frame, Rec
  <2>. QED
    BY <1>1, <2>1, SetNumbers, FieldNames DEF Kept, Fields
<1>. HIDE DEF v
<1>4. u \in Window /\ u.list = w.list /\ u.items = w.items
  <2>1. v.list = w.list /\ v.items = w.items /\ v.create = v.menu /\ Len(v.list) <= Hw
    BY <1>1, <1>3 DEF Kept, Fields, EditShown, ListShown
  <2>2. CASE listAll
    <3>1. u = ToggleList(v, FALSE)
      BY <2>2
    <3>2. u \in Window /\ Kept(u, v, {"hubs", "all", "editing", "editbox", "create", "menu",
                                     "use_wcid", "replace", "label"})
      <4>1. /\ ToggleList(v, FALSE) \in Window
            /\ \/ Kept(ToggleList(v, FALSE), v, {"hubs", "all", "editing", "editbox"})
               \/ Kept(ToggleList(v, FALSE), v, {"hubs", "all", "editing", "editbox", "create",
                                                 "menu", "use_wcid", "replace", "label"})
        BY <1>3, <2>1, ToggleListTyped
      <4>. QED
        BY <3>1, <4>1 DEF Kept
    <3>. HIDE DEF u
    <3>. QED
      BY <2>1, <3>2 DEF Kept, Fields
  <2>3. CASE ~listAll
    BY <1>3, <2>1, <2>3
  <2>. QED
    BY <2>2, <2>3
<1>. HIDE DEF shown
<1>5. w'.list = w.list /\ w'.items = w.items
  <2>1. w' = [u EXCEPT !.from_install = TRUE, !.installing = FALSE]
    BY <1>2 DEF EndInstall
  <2>. QED
    BY <1>4, <2>1, FieldNames DEF Fields
<1>6. Range(queue) \cup {"devicechange"} \subseteq Range(queue')
  <2>1. posted(listAll) \in Seq(Messages) /\ Range(queue) \subseteq Range(posted(listAll))
    <3>1. Refreshes(w) \in Seq(Messages)
      BY OneMessage, NoMessage DEF Refreshes, Messages
    <3>2. queue \o Refreshes(w) \in Seq(Messages) /\ Range(queue) \subseteq Range(queue \o Refreshes(w))
      BY <1>1, <3>1, Joined DEF Others
    <3>. QED
      BY <1>1, <3>2 DEF Others
  <2>. DEFINE q == Append(posted(listAll), "devicechange")
  <2>. HIDE DEF posted
  <2>2. "devicechange" \in Messages /\ "close" \in Messages
    BY DEF Messages
  <2>3. q \in Seq(Messages) /\ Range(queue) \cup {"devicechange"} \subseteq Range(q)
    BY <2>1, <2>2, Queued
  <2>4. queue' \in {q, Append(q, "close")}
    BY <1>2 DEF EndInstall
  <2>. HIDE DEF q
  <2>5. Range(q) \subseteq Range(Append(q, "close"))
    BY <2>2, <2>3, Queued
  <2>. QED
    BY <2>3, <2>4, <2>5
<1>7. Posted("devicechange")' /\ \A h \in Heralds : Posted(h) => Posted(h)'
  BY <1>6 DEF Posted
<1>8. "refused" \notin odd' => w'.items = w'.list
  BY <1>2, <1>5 DEF HearInv
<1>9. thid' => delay' \/ Posted("deviceevent")' \/ "dropped" \in odd'
  BY <1>2, <1>7 DEF HearInv, Heralds
<1>10. Coming'
  BY <1>7 DEF Coming, Heralds
<1>. QED
  BY <1>8, <1>9, <1>10 DEF HearInv

\* The window is switched to the creation of a device, or back: the items may be filled in again.
LEMMA CreateQuiet ==
  ASSUME UiInv, w' = ToggleCreate(w)
  PROVE  ListKept(w')
<1>1. w \in Window /\ Len(w.list) <= Hw
  BY DEF UiInv, ListShown
<1>2. /\ Kept(w', w, Fields \ {"list", "installing", "from_install", "all", "hubs", "type"})
      /\ w.menu => Kept(w', w, {"editbox", "create", "menu", "use_wcid", "replace", "label"})
      /\ ~w.menu => w'.items \in {w.items, w.list}
  BY <1>1, ToggleCreateTyped
<1>3. w'.list = w.list /\ w'.all = w.all /\ w'.hubs = w.hubs
  BY <1>2 DEF Kept, Fields
<1>4. w'.items \in {w.items, w.list}
  BY <1>2 DEF Kept, Fields
<1>. QED
  BY <1>3, <1>4 DEF ListKept

\* What the user does to the window, but for the options of the list.
LEMMA UserQuiet ==
  ASSUME UiInv, HearInv,
         \/ InstallClicked \/ SelectItem \/ EditClicked \/ EditRefused \/ Typed
         \/ CreateClicked \/ DriverScrolled \/ SplitChosen \/ OpenClicked \/ CloseClicked
  PROVE  HearInv'
<1>1. w \in Window /\ Others /\ ListShown /\ EditShown
  BY DEF UiInv
<1>2. queue = <<>> /\ stack = <<>> /\ UNCHANGED <<thid, delay, world>> /\ odd \subseteq odd'
  BY DEF InstallClicked, SelectItem, EditClicked, EditRefused, Typed, CreateClicked,
     DriverScrolled, SplitChosen, OpenClicked, CloseClicked, Click, CanInput, Calm
<1>3. \A h \in Heralds : ~Posted(h)
  BY <1>2, NoMessage DEF Posted
<1>4. ~Asking
  BY <1>2 DEF Asking
<1>5. ListKept(w')
  <2>1. CASE w' = w
    BY <2>1 DEF ListKept
  <2>2. CASE InstallClicked /\ w' # w
    <3>. DEFINE v == [w EXCEPT !.installing = TRUE]
    <3>1. w' = v \/ EndInstall(v, stack, queue, FALSE)
      BY <2>2 DEF InstallClicked
    <3>2. v \in Window /\ Kept(v, w, {"installing", "hwid"})
      BY <1>1, SetFlags, FieldNames DEF Kept, Fields
    <3>. HIDE DEF v
    <3>3. CASE w' = v
      BY <3>2, <3>3 DEF Kept, Fields, ListKept
    <3>4. CASE EndInstall(v, stack, queue, FALSE)
      BY <3>2, <3>4, EndQuiet
    <3>. QED
      BY <3>1, <3>3, <3>4
  <2>3. CASE SelectItem
    <3>1. PICK i \in DOMAIN w.items : w' = [w EXCEPT !.sel = i]
      BY <2>3 DEF SelectItem, Click
    <3>. QED
      BY <1>1, <3>1, FieldNames DEF Fields, ListKept
  <2>4. CASE EditClicked
    <3>. DEFINE v == [w EXCEPT !.editing = ~@]
    <3>1. w' = ToggleEdit(v)
      BY <2>4 DEF EditClicked, Click
    <3>2. /\ v \in Window /\ v.list = w.list /\ v.items = w.items /\ v.all = w.all
          /\ v.hubs = w.hubs /\ Len(v.list) <= Hw
      <4>1. (~w.editing) \in BOOLEAN
        BY <1>1, FlagsOf
      <4>. QED
        BY <1>1, <4>1, SetFlags, FieldNames DEF Fields, ListShown
    <3>. HIDE DEF v
    <3>3. CASE v.editing /\ v.device # NoDev
      <4>1. Kept(w', v, {"editbox", "edit"})
        BY <3>1, <3>2, <3>3, ToggleEditTyped
      <4>. QED
        BY <3>2, <4>1 DEF Kept, Fields, ListKept
    <3>4. CASE ~(v.editing /\ v.device # NoDev)
      <4>1. /\ Kept(w', v, {"editbox", "edit", "items", "found", "current", "hwid", "sel"})
            /\ w'.items = v.list
        BY <3>1, <3>2, <3>4, ToggleEditTyped
      <4>. QED
        BY <3>2, <4>1 DEF Kept, Fields, ListKept
    <3>. QED
      BY <3>3, <3>4
  <2>5. CASE EditRefused
    BY <1>1, <2>5, FieldNames DEF EditRefused, Fields, ListKept
  <2>6. CASE CreateClicked
    BY <2>6, CreateQuiet DEF CreateClicked, Click
  <2>7. CASE DriverScrolled
    <3>1. PICK increment \in {-1, 1} :
            w' = SetInstallButton(UpdateUi(SelectNextDriver(w, increment)))
      BY <2>7 DEF DriverScrolled, Click
    <3>. DEFINE a == SelectNextDriver(w, increment)
                b == UpdateUi(a)
    <3>2. a \in Window /\ Kept(a, w, {"type", "use_wcid"})
      BY <1>1, NextDriverTyped
    <3>3. w' = SetInstallButton(b)
      BY <3>1
    <3>. HIDE DEF a
    <3>4. b \in Window /\ Kept(b, a, {"filter", "has_filter"})
      BY <3>2, UiTyped
    <3>. HIDE DEF b
    <3>5. Kept(w', b, {"label"})
      BY <3>3, <3>4, ButtonTyped
    <3>. QED
      BY <3>2, <3>4, <3>5 DEF Kept, Fields, ListKept
  <2>8. CASE SplitChosen
    <3>1. PICK x \in {"install", "wcid", "filter", "extract"} :
            w' = SetInstallButton([w EXCEPT
                    !.filter = x = "filter",
                    !.use_wcid = x = "wcid" \/ (w.device = NoDev /\ ~w.create),
                    !.extract = x = "extract"])
      BY <2>8 DEF SplitChosen, Click
    <3>2. /\ w'.list = w.list /\ w'.items = w.items /\ w'.all = w.all /\ w'.hubs = w.hubs
      BY <1>1, <3>1, FieldNames DEF SetInstallButton, Fields
    <3>. QED
      BY <3>2 DEF ListKept
  <2>. QED
    BY <2>1, <2>2, <2>3, <2>4, <2>5, <2>6, <2>7, <2>8 DEF Typed, OpenClicked, CloseClicked, Click
<1>. QED
  BY <1>2, <1>3, <1>4, <1>5, QuietKept

\* IDM_LISTALL, IDM_IGNOREHUBS, and the devices that come and go: they post what refreshes the
\* list.
LEMMA ChangeHears ==
  ASSUME UiInv, HearInv, ListClicked \/ Plugged
  PROVE  HearInv'
<1>1. w \in Window /\ Others /\ ListShown /\ EditShown
  BY DEF UiInv
<1>2. UNCHANGED <<thid, delay, odd>>
  BY DEF ListClicked, Plugged, Click, Calm
<1>3. CASE ListClicked
  <2>1. PICK hubs \in BOOLEAN :
          /\ w' = ToggleList(w, hubs) /\ queue = <<>>
          /\ queue' = (IF w.create THEN Refreshes(w) ELSE <<>>) \o <<"refresh">>
    BY <1>3 DEF ListClicked, Click, CanInput
  <2>2. Kept(w', w, {"hubs", "all", "editing", "editbox", "create", "menu", "use_wcid",
                     "replace", "label"})
    <3>1. \/ Kept(w', w, {"hubs", "all", "editing", "editbox"})
          \/ Kept(w', w, {"hubs", "all", "editing", "editbox", "create", "menu", "use_wcid",
                          "replace", "label"})
      BY <1>1, <2>1, ToggleListTyped DEF ListShown, EditShown
    <3>. QED
      BY <3>1 DEF Kept
  <2>3. w'.list = w.list /\ w'.items = w.items
    BY <2>2 DEF Kept, Fields
  <2>4. Posted("refresh")'
    <3>. DEFINE first == IF w.create THEN Refreshes(w) ELSE <<>>
    <3>1. first \in Seq(Messages)
      BY OneMessage, NoMessage DEF Refreshes, Messages
    <3>2. <<"refresh">> \in Seq(Messages) /\ Range(<<"refresh">>) = {"refresh"}
      BY OneMessage DEF Messages
    <3>3. queue' = first \o <<"refresh">>
      BY <2>1
    <3>. HIDE DEF first
    <3>. QED
      BY <3>1, <3>2, <3>3, Joined DEF Posted
  <2>5. \A m : ~Posted(m)
    BY <2>1, NoMessage DEF Posted
  <2>6. Coming'
    BY <2>4 DEF Coming, Heralds
  <2>. QED
    BY <1>2, <2>3, <2>5, <2>6 DEF HearInv
<1>4. CASE Plugged
  <2>1. PICK n \in 1..2 : queue' = queue \o [i \in 1..n |-> "devicechange"]
    BY <1>4 DEF Plugged
  <2>. DEFINE more == [i \in 1..n |-> "devicechange"]
  <2>2. more \in Seq(Messages) /\ "devicechange" \in Range(more)
    BY DEF Messages, Range
  <2>3. queue' = queue \o more
    BY <2>1
  <2>. HIDE DEF more
  <2>4. Range(queue') = Range(queue) \cup Range(more)
    BY <1>1, <2>2, <2>3, Joined DEF Others
  <2>5. Posted("devicechange")' /\ \A h \in Heralds : Posted(h) => Posted(h)'
    BY <2>2, <2>4 DEF Posted
  <2>6. Coming'
    BY <2>5 DEF Coming, Heralds
  <2>7. w' = w
    BY <1>4 DEF Plugged
  <2>. QED
    BY <1>2, <2>5, <2>6, <2>7 DEF HearInv, Heralds
<1>. QED
  BY <1>3, <1>4

\* Boxes that are closed, the settings, the check and the download.
LEMMA BoxesQuiet ==
  ASSUME UiInv, HearInv,
         \/ NoticeClosed \/ FileChosen \/ SettingsOpened \/ SettingsClosed
         \/ CheckNow \/ DownloadClicked \/ AbortClicked \/ LaunchClicked
         \/ \E c \in Checker : Checking(c) \/ DialogClosed(c) \/ Launched(c)
         \/ \E d \in Loader : Downloading(d)
         \/ UNCHANGED vars
  PROVE  HearInv'
<1>1. w \in Window /\ Others
  BY DEF UiInv
<1>2. /\ UNCHANGED <<thid, delay, world, odd>>
      /\ w' \in {w, ToggleCreate(w)}
      /\ queue' \in {queue, Append(queue, "close"), Append(queue, "noupdate")}
      /\ \/ stack' = stack \/ stack' = Push("settings", NoDev, FALSE, FALSE)
         \/ stack # <<>> /\ Top.kind # "event" /\ stack' = Front(stack)
  BY DEF NoticeClosed, FileChosen, SettingsOpened, SettingsClosed, CheckNow, DownloadClicked,
     AbortClicked, LaunchClicked, Checking, CheckStarts, Waited, Queried, Shown, Answered,
     CheckClears, CheckEnds, DialogClosed, Launched, Downloading, LoadStarts, LoadCreates,
     LoadReads, LoadTells, LoadCloses, LoadUnlinks, Unwatched, uiVars, vars, Post
<1>3. ListKept(w')
  BY <1>2, CreateQuiet DEF ListKept
<1>4. \A h \in Heralds : Posted(h) => Posted(h)'
  <2>1. "close" \in Messages /\ "noupdate" \in Messages
    BY DEF Messages
  <2>. QED
    BY <1>1, <1>2, <2>1, MorePosted DEF Others
<1>5. Asking => Asking'
  <2>. DEFINE f == [kind |-> "settings", dev |-> NoDev, own |-> FALSE, ok |-> FALSE]
  <2>1. f \in Frame /\ Push("settings", NoDev, FALSE, FALSE) = Append(stack, f)
    BY NoDevTyped DEF Frame, Push
  <2>. HIDE DEF f
  <2>. QED
    BY <1>1, <1>2, <2>1, AskingStays DEF Others
<1>. QED
  BY <1>2, <1>3, <1>4, <1>5, QuietKept

\* Every step keeps it.
LEMMA HearStep ==
  ASSUME UiInv, HearInv, [Next]_vars
  PROVE  HearInv'
<1>1. CASE Messaging \/ DelayEnds
  BY <1>1, HeraldsHeard, MessageQuiet, RefreshHears DEF Messaging
<1>2. CASE Returning
  BY <1>2, AnswerHears, WarnedQuiet, InstallHears, BoxesQuiet DEF Returning
<1>3. CASE User \/ Plugged
  BY <1>3, UserQuiet, ChangeHears DEF User
<1>. QED
  BY <1>1, <1>2, <1>3, BoxesQuiet DEF Next

\* Zadig.ChangesHeard: while the list of the window is out of date, what is going to refresh it
\* is on its way, or something has gone wrong that ChangesShown names.
THEOREM ChangesAreHeard == Spec => []ChangesHeard
<1>1. Init => HearInv
  <2>1. Init => w.items = <<>> /\ w.list = <<>>
    <3>. SUFFICES ASSUME Init PROVE w.items = <<>> /\ w.list = <<>>
      OBVIOUS
    <3>1. UiInv
      BY UiStarts DEF Init
    <3>. QED
      BY <3>1 DEF Init, UiInit, SetDriver
  <2>2. Init => Posted("refresh") /\ ~thid
    BY OneMessage DEF Init, UiInit, Posted, Messages
  <2>. QED
    BY <2>1, <2>2 DEF HearInv, Coming, Heralds
<1>2. UiInv /\ HearInv /\ [Next]_vars => HearInv'
  BY HearStep
<1>3. UiInv /\ HearInv => ChangesHeard
  BY DEF HearInv, ChangesHeard, Coming, Heralds, Asking, Posted
<1>. QED
  BY <1>1, <1>2, <1>3, UiHolds, PTL DEF Spec
=============================================================================
