--------------------------- MODULE ProcessingProofs ---------------------------
(***************************************************************************)
(* Theorems about Processing, for any documents, models and pictures, any  *)
(* number of workers and of steps of a task.                               *)
(***************************************************************************)
EXTENDS Processing, NaturalsInduction, WellFoundedInduction, TLAPS

-----------------------------------------------------------------------------
(* Files *)

Fetching(p) == download[p] # NoDownload
Sound(m) == ~diskFull /\ m \notin overlapped

FileTypes ==
  /\ listed \subseteq Model
  /\ final \in [Model -> File \cup {Nothing}]
  /\ temporary \in [Model -> File \cup {Nothing}]
  /\ content \in [File -> SUBSET Nat]
  /\ download \in [Process -> {NoDownload}
                     \cup [model : Model, file : File, got : 0..Chunks, good : BOOLEAN]]

\* A file belongs to the model whose name it has.
OwnFiles ==
  /\ \A m \in Model : final[m] # Nothing => final[m][2] = m
  /\ \A m \in Model : temporary[m] # Nothing => temporary[m][2] = m
  /\ \A p \in Process : Fetching(p) => download[p].file[2] = download[p].model

\* A model nobody has interfered with: one process at most is downloading it, to
\* the file with the temporary name, which holds what has come so far, ...
InProgress ==
  /\ \A p \in Process : Fetching(p) /\ Sound(download[p].model) =>
       /\ download[p].good
       /\ content[download[p].file] = 1..download[p].got
       /\ temporary[download[p].model] = download[p].file
  /\ \A p, q \in Process :
       p # q /\ Fetching(p) /\ Fetching(q) /\ download[p].model = download[q].model =>
         download[p].model \in overlapped

\* ... and the file with the final name is whole and not the temporary one.
InPlace ==
  \A m \in Model : final[m] # Nothing /\ Sound(m) =>
    content[final[m]] = Whole /\ final[m] # temporary[m]

FilesInv == FileTypes /\ OwnFiles /\ InProgress /\ InPlace

-----------------------------------------------------------------------------
(* Workers *)

Places ==
  {"idle", "ask", "read", "detect", "askAgain", "readAgain", "insert", "prepare", "test", "lock",
   "load", "use"}

WorkerTypes ==
  /\ at \in [Worker -> Places]
  /\ step \in [Worker -> Nat] /\ frame \in [Worker -> Nat]
  /\ next \in Nat
  /\ loaded \in [DOMAIN procs -> BOOLEAN]
  /\ loader \in [DOMAIN procs -> Worker \cup {Nothing}]

\* A worker that is not idle has a frame of the job that is running, one that has
\* not left and that no other worker has.
InWork ==
  /\ \A w \in Worker : at[w] # "idle" =>
       /\ main = "running"
       /\ frame[w] \in DOMAIN job /\ frame[w] < next
       /\ \A r \in left : r.frame # frame[w]
  /\ \A r \in left : r.frame \in Nat /\ r.frame < next
  /\ \A v, w \in Worker : v # w /\ at[v] # "idle" /\ at[w] # "idle" => frame[v] # frame[w]

\* Who loads has the mutex and the flag is down; who uses has seen it up.
Locking ==
  \A w \in Worker :
    /\ at[w] \in {"lock", "load", "use"} => step[w] \in DOMAIN procs
    /\ at[w] = "load" => loader[step[w]] = w /\ ~loaded[step[w]]
    /\ at[w] = "use" => loaded[step[w]]

WorkersInv == WorkerTypes /\ InWork /\ Locking

-----------------------------------------------------------------------------
(* The files keep their invariant *)

\* The directory as the program finds it.
LEMMA FilesStart ==
  ASSUME NEW names \in SUBSET Model, NEW present, NEW full, FilesInit(names, present, full)
  PROVE  FilesInv
<1> USE NothingAssumption, ModelFilesAssumption
<1> DEFINE first == CHOOSE p \in Process : TRUE
<1>1. first \in Process
  BY ProcessingAssumption
<1>2. \A m \in Model : <<first, m>> \in File /\ <<first, m>>[2] = m
  BY <1>1 DEF File
<1>3. /\ final = [m \in Model |-> IF m \in present THEN <<first, m>> ELSE Nothing]
      /\ temporary = [m \in Model |-> Nothing]
      /\ content = [f \in File |-> IF final[f[2]] = f THEN Whole ELSE {}]
      /\ download = [p \in Process |-> NoDownload]
      /\ listed = names
  BY DEF FilesInit
<1> HIDE DEF first
<1>4. FileTypes
  <2>1. Whole \in SUBSET Nat
    BY DEF Whole
  <2> QED BY <1>2, <1>3, <2>1 DEF FileTypes
<1>5. OwnFiles /\ InProgress
  BY <1>2, <1>3 DEF OwnFiles, InProgress, Fetching
<1>6. InPlace
  <2> SUFFICES ASSUME NEW m \in Model, final[m] # Nothing
               PROVE  content[final[m]] = Whole /\ final[m] # temporary[m]
    BY DEF InPlace
  <2>1. final[m] = <<first, m>>
    BY <1>3
  <2> QED BY <1>2, <1>3, <2>1
<1> QED BY <1>4, <1>5, <1>6 DEF FilesInv

\* A download begins, perhaps beside another one of the same model.
LEMMA OpenKeepsFiles ==
  ASSUME FilesInv, NEW p \in Process, NEW m \in Model, OpenTemporary(p, m)
  PROVE  FilesInv'
<1> USE NothingAssumption, ModelFilesAssumption
<1> DEFINE file == IF temporary[m] = Nothing THEN <<p, m>> ELSE temporary[m]
           begun == [model |-> m, file |-> file, got |-> 0, good |-> TRUE]
<1>1. file \in File /\ file[2] = m
  BY DEF FilesInv, FileTypes, OwnFiles, File
<1>2. /\ temporary' = [temporary EXCEPT ![m] = file]
      /\ content' = [content EXCEPT ![file] = {}]
      /\ download' = [download EXCEPT ![p] = begun]
      /\ overlapped' = overlapped \cup {x \in {m} : \E q \in Process : Downloading(q, x)}
      /\ download[p] = NoDownload /\ final[m] # <<p, m>>
      /\ UNCHANGED <<listed, diskFull, final>>
  BY DEF OpenTemporary
<1>3. begun \in [model : Model, file : File, got : 0..Chunks, good : BOOLEAN]
  BY <1>1
<1>4. begun # NoDownload /\ begun.model = m /\ begun.file = file /\ begun.got = 0 /\ begun.good
  BY DEF NoDownload
<1> HIDE DEF file, begun
<1>5. FileTypes'
  BY <1>1, <1>2, <1>3 DEF FilesInv, FileTypes
<1>6. OwnFiles'
  BY <1>1, <1>2, <1>4 DEF FilesInv, FileTypes, OwnFiles, Fetching
<1>7. \A q \in Process : q # p /\ Fetching(q) /\ download[q].model = m => m \in overlapped'
  BY <1>2 DEF Downloading, Fetching
<1>8. \A x : Sound(x)' => Sound(x)
  BY <1>2 DEF Sound
<1>9. InProgress'
  <2>1. ASSUME NEW q \in Process, Fetching(q)', Sound(download[q].model)'
        PROVE  /\ download'[q].good
               /\ content'[download'[q].file] = 1..download'[q].got
               /\ temporary'[download'[q].model] = download'[q].file
    <3>1. CASE q = p
      BY <1>1, <1>2, <1>4, <3>1 DEF FilesInv, FileTypes
    <3>2. CASE q # p
      <4>1. download'[q] = download[q] /\ Fetching(q)
        BY <1>2, <2>1, <3>2 DEF FilesInv, FileTypes, Fetching
      <4>2. download[q].model # m
        BY <1>7, <2>1, <3>2, <4>1 DEF Sound
      <4>3. download[q].file # file /\ download[q].model \in Model
        BY <1>1, <4>1, <4>2 DEF FilesInv, FileTypes, OwnFiles, Fetching
      <4>4. /\ download[q].good
            /\ content[download[q].file] = 1..download[q].got
            /\ temporary[download[q].model] = download[q].file
        BY <1>8, <2>1, <4>1 DEF FilesInv, InProgress
      <4> QED BY <1>2, <4>1, <4>2, <4>3, <4>4 DEF FilesInv, FileTypes
    <3> QED BY <3>1, <3>2
  <2>2. ASSUME NEW q \in Process, NEW r \in Process, q # r, Fetching(q)', Fetching(r)',
               download'[q].model = download'[r].model
        PROVE  download'[q].model \in overlapped'
    BY <1>2, <1>4, <1>7, <2>2 DEF FilesInv, FileTypes, InProgress, Fetching
  <2> QED BY <2>1, <2>2 DEF InProgress
<1>10. InPlace'
  <2> SUFFICES ASSUME NEW x \in Model, final'[x] # Nothing, Sound(x)'
               PROVE  content'[final'[x]] = Whole /\ final'[x] # temporary'[x]
    BY DEF InPlace
  <2>1. content[final[x]] = Whole /\ final[x] # temporary[x] /\ final[x][2] = x /\ final[x] \in File
    BY <1>2, <1>8 DEF FilesInv, FileTypes, OwnFiles, InPlace
  <2>2. final[x] # file
    BY <1>1, <1>2, <2>1 DEF file
  <2> QED BY <1>1, <1>2, <2>1, <2>2 DEF FilesInv, FileTypes
<1> QED BY <1>5, <1>6, <1>9, <1>10 DEF FilesInv

\* A piece arrives.
LEMMA WriteKeepsFiles ==
  ASSUME FilesInv, NEW p \in Process, WriteChunk(p)
  PROVE  FilesInv'
<1> USE NothingAssumption, ModelFilesAssumption
<1> DEFINE d == download[p]
<1>1. /\ d \in [model : Model, file : File, got : 0..Chunks, good : BOOLEAN]
      /\ d # NoDownload /\ d.file[2] = d.model
      /\ d.got < Chunks
      /\ UNCHANGED <<listed, diskFull, final, temporary, overlapped>>
  BY DEF WriteChunk, FilesInv, FileTypes, OwnFiles, Fetching
<1>2. PICK good \in {d.good, d.good /\ ~diskFull} :
        /\ download' = [download EXCEPT ![p].got = @ + 1, ![p].good = good]
        /\ content' = IF good THEN [content EXCEPT ![d.file] = @ \cup {d.got + 1}] ELSE content
  BY DEF WriteChunk
<1>3. good \in BOOLEAN /\ (d.good /\ ~diskFull => good)
  BY <1>1, <1>2
<1> DEFINE e == download'[p]
<1>4. /\ e = [d EXCEPT !.got = @ + 1, !.good = good]
      /\ \A q \in Process : q # p => download'[q] = download[q]
  BY <1>1, <1>2 DEF FilesInv, FileTypes
<1>5. /\ e \in [model : Model, file : File, got : 0..Chunks, good : BOOLEAN]
      /\ e.model = d.model /\ e.file = d.file /\ e.got = d.got + 1 /\ e.good = good
  <2>1. d.got + 1 \in 0..Chunks
    BY <1>1
  <2>2. e = [model |-> d.model, file |-> d.file, got |-> d.got + 1, good |-> good]
    BY <1>1, <1>4
  <2>3. d.model \in Model /\ d.file \in File
    BY <1>1
  <2> HIDE DEF d, e
  <2> QED BY <1>3, <2>1, <2>2, <2>3
<1>6. e # NoDownload
  BY <1>5 DEF NoDownload
<1>7. \A f \in File : f # d.file => content'[f] = content[f]
  BY <1>1, <1>2 DEF FilesInv, FileTypes
<1>8. good => content'[d.file] = content[d.file] \cup {d.got + 1}
  BY <1>1, <1>2 DEF FilesInv, FileTypes
<1>9. FileTypes'
  <2>1. content' \in [File -> SUBSET Nat]
    BY <1>1, <1>2 DEF FilesInv, FileTypes
  <2>2. download' = [download EXCEPT ![p] = e]
    BY <1>1, <1>2, <1>4 DEF FilesInv, FileTypes
  <2> QED BY <1>1, <1>5, <2>1, <2>2 DEF FilesInv, FileTypes
<1>10. OwnFiles'
  BY <1>1, <1>4, <1>5 DEF FilesInv, FileTypes, OwnFiles, Fetching
<1>11. InProgress'
  <2>1. ASSUME NEW q \in Process, Fetching(q)', Sound(download[q].model)'
        PROVE  /\ download'[q].good
               /\ content'[download'[q].file] = 1..download'[q].got
               /\ temporary'[download'[q].model] = download'[q].file
    <3>1. CASE q = p
      <4>1. /\ d.good /\ content[d.file] = 1..d.got /\ temporary[d.model] = d.file
            /\ ~diskFull
        BY <1>1, <1>5, <2>1, <3>1 DEF FilesInv, InProgress, Fetching, Sound
      <4>2. good /\ (1..d.got) \cup {d.got + 1} = 1..(d.got + 1)
        BY <1>1, <1>3, <4>1
      <4> QED BY <1>1, <1>5, <1>8, <3>1, <4>1, <4>2
    <3>2. CASE q # p
      <4>1. /\ download[q].good /\ content[download[q].file] = 1..download[q].got
            /\ temporary[download[q].model] = download[q].file
            /\ Fetching(q) /\ download[q].model \notin overlapped
        BY <1>1, <1>4, <2>1, <3>2 DEF FilesInv, InProgress, Fetching, Sound
      <4>2. download[q].file # d.file /\ download[q].file \in File
        BY <1>1, <3>2, <4>1 DEF FilesInv, FileTypes, OwnFiles, InProgress, Fetching
      <4> QED BY <1>1, <1>4, <1>7, <3>2, <4>1, <4>2
    <3> QED BY <3>1, <3>2
  <2>2. ASSUME NEW q \in Process, NEW r \in Process, q # r, Fetching(q)', Fetching(r)',
               download'[q].model = download'[r].model
        PROVE  download'[q].model \in overlapped'
    <3>1. /\ Fetching(q) /\ Fetching(r)
          /\ download'[q].model = download[q].model /\ download'[r].model = download[r].model
      BY <1>1, <1>4, <1>5, <2>2 DEF Fetching
    <3> QED BY <1>1, <2>2, <3>1 DEF FilesInv, InProgress
  <2> QED BY <2>1, <2>2 DEF InProgress
<1>12. InPlace'
  <2> SUFFICES ASSUME NEW x \in Model, final'[x] # Nothing, Sound(x)'
               PROVE  content'[final'[x]] = Whole /\ final'[x] # temporary'[x]
    BY DEF InPlace
  <2>1. /\ content[final[x]] = Whole /\ final[x] # temporary[x]
        /\ final[x][2] = x /\ final[x] \in File /\ Sound(x)
    BY <1>1 DEF FilesInv, FileTypes, OwnFiles, InPlace, Sound
  <2>2. final[x] # d.file
    BY <1>1, <2>1 DEF FilesInv, InProgress, Fetching
  <2> QED BY <1>1, <1>7, <2>1, <2>2
<1> QED BY <1>9, <1>10, <1>11, <1>12 DEF FilesInv

\* A download ends without its file being renamed; the temporary name may go.
LEMMA EndKeepsFiles ==
  ASSUME FilesInv, NEW p \in Process,
         DownloadFails(p) \/ RenameFails(p) \/ DownloaderDies(p)
  PROVE  FilesInv'
<1> USE NothingAssumption
<1> DEFINE m == download[p].model
<1>1. /\ Fetching(p) /\ m \in Model
      /\ download' = [download EXCEPT ![p] = NoDownload]
      /\ temporary' \in {temporary, [temporary EXCEPT ![m] = Nothing]}
      /\ UNCHANGED <<listed, diskFull, final, content, overlapped>>
  BY DEF DownloadFails, RenameFails, DownloaderDies, Complete, Fetching, FilesInv, FileTypes
<1>2. \A q \in Process : Fetching(q)' => q # p /\ Fetching(q) /\ download'[q] = download[q]
  BY <1>1 DEF FilesInv, FileTypes, Fetching
<1>3. FileTypes'
  BY <1>1 DEF FilesInv, FileTypes
<1>4. OwnFiles'
  BY <1>1, <1>2 DEF FilesInv, FileTypes, OwnFiles
<1>5. InProgress'
  <2>1. ASSUME NEW q \in Process, Fetching(q)', Sound(download[q].model)'
        PROVE  /\ download'[q].good
               /\ content'[download'[q].file] = 1..download'[q].got
               /\ temporary'[download'[q].model] = download'[q].file
    <3>1. /\ Sound(download[q].model) /\ download[q].model # m
          /\ Fetching(q) /\ download'[q] = download[q] /\ download[q].model \in Model
      BY <1>1, <1>2, <2>1 DEF FilesInv, FileTypes, InProgress, Sound, Fetching
    <3>2. /\ download[q].good /\ content[download[q].file] = 1..download[q].got
          /\ temporary[download[q].model] = download[q].file
      BY <3>1 DEF FilesInv, InProgress
    <3>3. temporary'[download[q].model] = temporary[download[q].model]
      BY <1>1, <3>1 DEF FilesInv, FileTypes
    <3> QED BY <1>1, <3>1, <3>2, <3>3
  <2>2. \A q, r \in Process :
          q # r /\ Fetching(q)' /\ Fetching(r)' /\ download'[q].model = download'[r].model =>
            download'[q].model \in overlapped'
    BY <1>1, <1>2 DEF FilesInv, InProgress
  <2> QED BY <2>1, <2>2 DEF InProgress
<1>6. InPlace'
  BY <1>1 DEF FilesInv, FileTypes, InPlace, Sound
<1> QED BY <1>3, <1>4, <1>5, <1>6 DEF FilesInv

\* What has come completely gets the final name.
LEMMA RenameKeepsFiles ==
  ASSUME FilesInv, NEW p \in Process, RenameModel(p)
  PROVE  FilesInv'
<1> USE NothingAssumption
<1> DEFINE m == download[p].model
<1>1. /\ Fetching(p) /\ m \in Model /\ download[p].got = Chunks
      /\ temporary[m] \in File
      /\ final' = [final EXCEPT ![m] = temporary[m]]
      /\ temporary' = [temporary EXCEPT ![m] = Nothing]
      /\ download' = [download EXCEPT ![p] = NoDownload]
      /\ UNCHANGED <<listed, diskFull, content, overlapped>>
  BY DEF RenameModel, Complete, Fetching, FilesInv, FileTypes
<1>2. \A q \in Process : Fetching(q)' => q # p /\ Fetching(q) /\ download'[q] = download[q]
  BY <1>1 DEF FilesInv, FileTypes, Fetching
<1>3. FileTypes'
  BY <1>1 DEF FilesInv, FileTypes
<1>4. OwnFiles'
  BY <1>1, <1>2 DEF FilesInv, FileTypes, OwnFiles
<1>5. InProgress'
  <2>1. ASSUME NEW q \in Process, Fetching(q)', Sound(download[q].model)'
        PROVE  /\ download'[q].good
               /\ content'[download'[q].file] = 1..download'[q].got
               /\ temporary'[download'[q].model] = download'[q].file
    <3>1. /\ Sound(download[q].model) /\ download[q].model # m
          /\ Fetching(q) /\ download'[q] = download[q] /\ download[q].model \in Model
      BY <1>1, <1>2, <2>1 DEF FilesInv, FileTypes, InProgress, Sound, Fetching
    <3>2. /\ download[q].good /\ content[download[q].file] = 1..download[q].got
          /\ temporary[download[q].model] = download[q].file
      BY <3>1 DEF FilesInv, InProgress
    <3>3. temporary'[download[q].model] = temporary[download[q].model]
      BY <1>1, <3>1 DEF FilesInv, FileTypes
    <3> QED BY <1>1, <3>1, <3>2, <3>3
  <2>2. \A q, r \in Process :
          q # r /\ Fetching(q)' /\ Fetching(r)' /\ download'[q].model = download'[r].model =>
            download'[q].model \in overlapped'
    BY <1>1, <1>2 DEF FilesInv, InProgress
  <2> QED BY <2>1, <2>2 DEF InProgress
<1>6. InPlace'
  <2> SUFFICES ASSUME NEW x \in Model, final'[x] # Nothing, Sound(x)'
               PROVE  content'[final'[x]] = Whole /\ final'[x] # temporary'[x]
    BY DEF InPlace
  <2>1. Sound(x)
    BY <1>1 DEF Sound
  <2>2. CASE x = m
    <3>1. content[temporary[m]] = Whole
      BY <1>1, <2>1, <2>2 DEF FilesInv, InProgress, Whole
    <3> QED BY <1>1, <2>2, <3>1 DEF FilesInv, FileTypes
  <2>3. CASE x # m
    BY <1>1, <2>1, <2>3 DEF FilesInv, FileTypes, InPlace
  <2> QED BY <2>2, <2>3
<1> QED BY <1>3, <1>4, <1>5, <1>6 DEF FilesInv

\* A step of something else leaves the files alone.
LEMMA IdleKeepsFiles == FilesInv /\ UNCHANGED fileVars => FilesInv'
BY DEF fileVars, FilesInv, FileTypes, OwnFiles, InProgress, InPlace, Fetching, Sound

\* What the whole program and the other process do, to the files and else.
LEMMA NextKeepsFiles == FilesInv /\ [Next]_vars => FilesInv'
<1> SUFFICES ASSUME FilesInv, [Next]_vars
             PROVE  FilesInv'
  OBVIOUS
<1> USE ProcessingAssumption
<1>1. CASE UNCHANGED vars
  BY <1>1, IdleKeepsFiles DEF vars
<1>2. CASE MainStep
  <2>1. CASE Fetch
    <3>1. CASE OpenTemporary(Main, Head(todo))
      <4>1. Head(todo) \in Model
        BY <3>1 DEF OpenTemporary, FilesInv, FileTypes
      <4> QED BY <3>1, <4>1, OpenKeepsFiles
    <3>2. CASE WriteChunk(Main)
      BY <3>2, WriteKeepsFiles
    <3> QED BY <2>1, <3>1, <3>2 DEF Fetch
  <2>2. CASE Fetched
    BY <2>2, RenameKeepsFiles DEF Fetched
  <2>3. CASE FetchThrows
    BY <2>3, EndKeepsFiles DEF FetchThrows
  <2>4. CASE ~Fetch /\ ~Fetched /\ ~FetchThrows
    <3>1. UNCHANGED fileVars
      BY <1>2, <2>4
      DEF MainStep, Configure, EnsureModel, FoundAfterAll, MakeAnalyser, LoadSource, SourcesLoaded,
          CheckTargets, BeginJob, ServiceReady, StartPipeline, JobEnds, TaskEnds
    <3> QED BY <3>1, IdleKeepsFiles
  <2> QED BY <2>1, <2>2, <2>3, <2>4
<1>3. CASE Workers
  BY <1>3, IdleKeepsFiles DEF Workers, WorkerStep
<1>4. CASE Other
  <2>1. CASE \E m \in wanted : OpenTemporary(Rival, m)
    <3>1. PICK m \in wanted : OpenTemporary(Rival, m)
      BY <2>1
    <3>2. m \in Model
      BY <3>1 DEF OpenTemporary, FilesInv, FileTypes
    <3> QED BY <3>1, <3>2, OpenKeepsFiles
  <2>2. CASE WriteChunk(Rival)
    BY <2>2, WriteKeepsFiles
  <2>3. CASE RenameModel(Rival)
    BY <2>3, RenameKeepsFiles
  <2>4. CASE DownloadFails(Rival) \/ RenameFails(Rival) \/ DownloaderDies(Rival)
    BY <2>4, EndKeepsFiles
  <2> QED BY <1>4, <2>1, <2>2, <2>3, <2>4 DEF Other
<1> QED BY <1>1, <1>2, <1>3, <1>4 DEF Next

\* The program starts with what an earlier one left.
LEMMA FilesBegin == Init => FilesInv
<1> SUFFICES ASSUME Init
             PROVE  FilesInv
  OBVIOUS
<1>1. PICK w \in Worlds : FilesInit(w.listed, w.present, w.diskFull)
  BY DEF Init
<1> QED BY <1>1, FilesStart, ProcessingAssumption, WorldAssumption

\* Every file that has the final name of a model is whole, whatever downloads have
\* broken off and whoever has died, unless the disk was full or two processes have
\* downloaded that model at one time (ensure_model, which takes such a file as it is).
THEOREM FilesAreWhole == Spec => []ModelIsWhole
<1>1. FilesInv => ModelIsWhole
  BY DEF FilesInv, InPlace, Sound, ModelIsWhole, Present, Loadable
<1> QED BY <1>1, FilesBegin, NextKeepsFiles, PTL DEF Spec

-----------------------------------------------------------------------------
(* The workers keep theirs *)

\* What the invariant speaks of.
workVars == <<at, step, frame, next, procs, loaded, loader, job, left>>

\* A step of something else leaves the workers alone; it may end the program
\* only when all of them are idle.
LEMMA IdleKeepsWorkers ==
  ASSUME WorkersInv, UNCHANGED workVars,
         main' = main \/ (main' # "running" /\ \A w \in Worker : at[w] = "idle")
  PROVE  WorkersInv'
<1>1. WorkerTypes' /\ Locking'
  BY DEF workVars, WorkersInv, WorkerTypes, Locking
<1>2. InWork'
  BY DEF workVars, WorkersInv, InWork
<1> QED BY <1>1, <1>2 DEF WorkersInv

\* A worker that does not use or load an adapter moves on, at its frame.
LEMMA MoveKeepsWorkers ==
  ASSUME WorkersInv, NEW w \in Worker, NEW place \in Places,
         at[w] # "idle", place \notin {"lock", "load", "use"}, place # "idle",
         Go(w, place),
         UNCHANGED <<main, step, frame, next, procs, loaded, loader, job, left>>
  PROVE  WorkersInv'
<1>1. \A v \in Worker : v # w => at'[v] = at[v]
  BY DEF Go, WorkersInv, WorkerTypes
<1>2. at'[w] = place
  BY DEF Go, WorkersInv, WorkerTypes
<1>3. WorkerTypes'
  BY DEF Go, WorkersInv, WorkerTypes
<1>4. InWork'
  BY <1>1, <1>2 DEF WorkersInv, InWork
<1>5. Locking'
  BY <1>1, <1>2 DEF WorkersInv, Locking
<1> QED BY <1>3, <1>4, <1>5 DEF WorkersInv

\* A frame is taken: one that nobody has had.
LEMMA TakeKeepsWorkers ==
  ASSUME WorkersInv, NEW w \in Worker, TakeFrame(w), main = "running", UNCHANGED main
  PROVE  WorkersInv'
<1> DEFINE place == IF Needed # {} THEN "ask" ELSE "test"
<1>1. /\ at[w] = "idle" /\ next \in DOMAIN job /\ next \in Nat
      /\ at' = [at EXCEPT ![w] = place]
      /\ next' = next + 1
      /\ frame' = [frame EXCEPT ![w] = next]
      /\ step' = [step EXCEPT ![w] = 1]
      /\ UNCHANGED <<procs, loaded, loader, job, left>>
  BY DEF TakeFrame, Go, WorkersInv, WorkerTypes
<1>2. place \in {"ask", "test"}
  OBVIOUS
<1> HIDE DEF place
<1>3. \A v \in Worker : v # w => at'[v] = at[v] /\ frame'[v] = frame[v] /\ step'[v] = step[v]
  BY <1>1 DEF WorkersInv, WorkerTypes
<1>4. at'[w] = place /\ frame'[w] = next
  BY <1>1 DEF WorkersInv, WorkerTypes
<1>5. WorkerTypes'
  BY <1>1, <1>2 DEF WorkersInv, WorkerTypes, Places
<1>6. InWork'
  <2>1. ASSUME NEW v \in Worker, at'[v] # "idle"
        PROVE  /\ main' = "running" /\ frame'[v] \in DOMAIN job' /\ frame'[v] < next'
               /\ \A r \in left' : r.frame # frame'[v]
    <3>1. CASE v = w
      BY <1>1, <1>4, <3>1 DEF WorkersInv, InWork
    <3>2. CASE v # w
      <4>1. frame[v] \in Nat /\ frame[v] < next
        BY <1>3, <2>1, <3>2 DEF WorkersInv, WorkerTypes, InWork
      <4> QED BY <1>1, <1>3, <2>1, <3>2, <4>1 DEF WorkersInv, InWork
    <3> QED BY <3>1, <3>2
  <2>2. ASSUME NEW r \in left'
        PROVE  r.frame \in Nat /\ r.frame < next'
    BY <1>1, <2>2 DEF WorkersInv, InWork
  <2>3. ASSUME NEW u \in Worker, NEW v \in Worker, u # v, at'[u] # "idle", at'[v] # "idle"
        PROVE  frame'[u] # frame'[v]
    <3>1. \A x \in Worker : x # w /\ at[x] # "idle" => frame[x] \in Nat /\ frame[x] < next
      BY DEF WorkersInv, WorkerTypes, InWork
    <3> QED BY <1>1, <1>3, <1>4, <2>3, <3>1 DEF WorkersInv, InWork
  <2> QED BY <2>1, <2>2, <2>3 DEF InWork
<1>7. Locking'
  BY <1>1, <1>2, <1>3, <1>4 DEF WorkersInv, Locking
<1> QED BY <1>5, <1>6, <1>7 DEF WorkersInv

\* A frame leaves, and its worker has none.
LEMMA LeaveKeepsWorkers ==
  ASSUME WorkersInv, NEW w \in Worker, LeaveFrame(w), UNCHANGED main
  PROVE  WorkersInv'
<1>1. /\ at[w] = "test" /\ at' = [at EXCEPT ![w] = "idle"]
      /\ left' = left \cup {[frame |-> frame[w], applied |-> applied[w], noted |-> noted[w],
                             missed |-> w \in missed]}
      /\ UNCHANGED <<main, step, frame, next, procs, loaded, loader, job>>
  BY DEF LeaveFrame, Go
<1>2. \A r \in left' : r \in left \/ r.frame = frame[w]
  BY <1>1
<1>3. at'[w] = "idle" /\ \A v \in Worker : v # w => at'[v] = at[v]
  BY <1>1 DEF WorkersInv, WorkerTypes
<1>4. WorkerTypes'
  BY <1>1 DEF WorkersInv, WorkerTypes, Places
<1>5. InWork'
  BY <1>1, <1>2, <1>3 DEF WorkersInv, WorkerTypes, InWork
<1>6. Locking'
  BY <1>1, <1>3 DEF WorkersInv, Locking
<1> QED BY <1>4, <1>5, <1>6 DEF WorkersInv

\* The way to the model: past the flag, through the mutex, or to the loading.
LEMMA LockKeepsWorkers ==
  ASSUME WorkersInv, NEW w \in Worker,
         TestLoaded(w) \/ LockAndTest(w) \/ LoadModel(w) \/ LoadThrows(w),
         UNCHANGED main
  PROVE  WorkersInv'
<1> USE WorkerAssumption
<1> DEFINE k == step[w]
<1>1. k \in DOMAIN procs /\ at[w] # "idle"
  BY DEF TestLoaded, LockAndTest, LoadModel, LoadThrows, WorkersInv, Locking
<1>2. UNCHANGED <<main, step, frame, next, procs, job, left>>
  BY DEF TestLoaded, LockAndTest, LoadModel, LoadThrows, Moves
<1>3. PICK place \in {"use", "lock", "load"} : at' = [at EXCEPT ![w] = place]
  BY DEF TestLoaded, LockAndTest, LoadModel, LoadThrows, Moves, Go
<1>4. at'[w] = place /\ \A v \in Worker : v # w => at'[v] = at[v]
  BY <1>3 DEF WorkersInv, WorkerTypes
<1>5. InWork'
  BY <1>1, <1>2, <1>3, <1>4 DEF WorkersInv, InWork
<1>6. ASSUME TestLoaded(w) \/ LoadThrows(w)
      PROVE  WorkerTypes' /\ Locking'
  <2>1. UNCHANGED <<loaded, loader>> /\ (place = "use" => loaded[k])
        /\ (place = "load" => loader[k] = w /\ ~loaded[k])
    BY <1>3, <1>4, <1>6 DEF TestLoaded, LoadThrows, Moves, Go, WorkersInv, WorkerTypes, Locking
  <2> QED BY <1>1, <1>2, <1>3, <1>4, <2>1 DEF WorkersInv, WorkerTypes, Locking, Places
<1>7. ASSUME LockAndTest(w)
      PROVE  WorkerTypes' /\ Locking'
  <2>1. loader[k] = Nothing /\ UNCHANGED loaded
    BY <1>7 DEF LockAndTest
  <2>2. \A v \in Worker : at[v] = "load" => step[v] # k
    BY <2>1 DEF WorkersInv, Locking
  <2>3. CASE loaded[k]
    <3>1. at'[w] = "use" /\ UNCHANGED loader
      BY <1>4, <1>7, <2>3 DEF LockAndTest, Moves, Go, WorkersInv, WorkerTypes
    <3> QED BY <1>1, <1>2, <1>3, <1>4, <2>1, <2>3, <3>1
            DEF WorkersInv, WorkerTypes, Locking, Places
  <2>4. CASE ~loaded[k]
    <3>1. at'[w] = "load" /\ loader' = [loader EXCEPT ![k] = w]
      BY <1>4, <1>7, <2>4 DEF LockAndTest, Moves, Go, WorkersInv, WorkerTypes
    <3>2. WorkerTypes'
      BY <1>1, <1>2, <1>3, <2>1, <3>1 DEF WorkersInv, WorkerTypes, Places
    <3>3. Locking'
      BY <1>1, <1>2, <1>4, <2>1, <2>2, <2>4, <3>1 DEF WorkersInv, WorkerTypes, Locking
    <3> QED BY <3>2, <3>3
  <2> QED BY <2>3, <2>4
<1>8. ASSUME LoadModel(w)
      PROVE  WorkerTypes' /\ Locking'
  <2>1. /\ loaded' = [loaded EXCEPT ![k] = TRUE]
        /\ loader' = [loader EXCEPT ![k] = Nothing]
        /\ loader[k] = w
    BY <1>8 DEF LoadModel, WorkersInv, Locking
  <2>2. at'[w] = "use"
    BY <1>8 DEF LoadModel, Moves, Go, WorkersInv, WorkerTypes
  <2>3. \A v \in Worker : v # w /\ at[v] = "load" => step[v] # k
    BY <2>1 DEF WorkersInv, Locking
  <2>4. WorkerTypes'
    BY <1>1, <1>2, <1>3, <2>1 DEF WorkersInv, WorkerTypes, Places
  <2>5. Locking'
    BY <1>1, <1>2, <1>4, <2>1, <2>2, <2>3 DEF WorkersInv, WorkerTypes, Locking
  <2> QED BY <2>4, <2>5
<1> QED BY <1>5, <1>6, <1>7, <1>8 DEF WorkersInv

\* An adapter is done with the frame, well or not.
LEMMA StepKeepsWorkers ==
  ASSUME WorkersInv, NEW w \in Worker, at[w] = "use", NextStep(w),
         UNCHANGED main
  PROVE  WorkersInv'
<1>1. /\ at' = [at EXCEPT ![w] = "test"]
      /\ step' = [step EXCEPT ![w] = @ + 1]
      /\ UNCHANGED <<main, frame, next, procs, loaded, loader, job, left>>
  BY DEF NextStep, Go
<1>2. at'[w] = "test" /\ \A v \in Worker : v # w => at'[v] = at[v] /\ step'[v] = step[v]
  BY <1>1 DEF WorkersInv, WorkerTypes
<1>3. WorkerTypes'
  BY <1>1 DEF WorkersInv, WorkerTypes, Places
<1>4. InWork'
  BY <1>1, <1>2 DEF WorkersInv, InWork
<1>5. Locking'
  BY <1>1, <1>2 DEF WorkersInv, Locking
<1> QED BY <1>3, <1>4, <1>5 DEF WorkersInv

\* Whatever a worker does.
LEMMA WorkerKeepsWorkers ==
  ASSUME WorkersInv, NEW w \in Worker, main = "running", WorkerStep(w), UNCHANGED main
  PROVE  WorkersInv'
<1>1. CASE Analyse(w) /\ UNCHANGED processorVars
  <2>1. PICK place \in {"read", "detect", "prepare", "askAgain", "readAgain", "insert"} :
          Go(w, place) /\ at[w] # "idle"
    BY <1>1 DEF Analyse, AskStore, ReadStore, DetectFaces, AskAgain, ReadAgain, InsertFaces, Go
  <2> QED BY <1>1, <2>1, MoveKeepsWorkers DEF processorVars, Places
<1>2. CASE TakeFrame(w)
  BY <1>2, TakeKeepsWorkers
<1>3. CASE Prepare(w)
  BY <1>3, MoveKeepsWorkers DEF Prepare, Places
<1>4. CASE LeaveFrame(w)
  BY <1>4, LeaveKeepsWorkers
<1>5. CASE TestLoaded(w) \/ LockAndTest(w) \/ LoadModel(w) \/ LoadThrows(w)
  BY <1>5, LockKeepsWorkers
<1>6. CASE ApplyStep(w) \/ StepFails(w)
  BY <1>6, StepKeepsWorkers DEF ApplyStep, StepFails
<1>7. CASE StepThrows(w)
  <2>1. at' = at /\ UNCHANGED <<step, frame, next, procs, loaded, loader, job, left>>
    BY <1>7 DEF StepThrows, Moves, Go, WorkersInv, WorkerTypes
  <2> QED BY <2>1, IdleKeepsWorkers DEF workVars
<1> QED BY <1>1, <1>2, <1>3, <1>4, <1>5, <1>6, <1>7 DEF WorkerStep

\* The main thread starts a pipeline when all workers are idle, as all of them are
\* when a job ends.
LEMMA MainKeepsWorkers ==
  ASSUME WorkersInv, MainStep
  PROVE  WorkersInv'
<1>1. main # "running" => \A w \in Worker : at[w] = "idle"
  BY DEF WorkersInv, InWork
<1>2. CASE StartPipeline
  <2>1. /\ main = "ensure" /\ procs' = Adapters /\ next' = 1 /\ left' = {}
        /\ loaded' = [k \in DOMAIN procs' |-> FALSE]
        /\ loader' = [k \in DOMAIN procs' |-> Nothing]
        /\ UNCHANGED <<at, step, frame>>
    BY <1>2 DEF StartPipeline, NewPipeline, analysisVars
  <2>2. \A w \in Worker : at'[w] = "idle"
    BY <1>1, <2>1
  <2>3. WorkerTypes'
    BY <2>1 DEF WorkersInv, WorkerTypes
  <2>4. InWork' /\ Locking'
    BY <2>1, <2>2 DEF InWork, Locking
  <2> QED BY <2>3, <2>4 DEF WorkersInv
<1>3. CASE JobEnds
  <2>1. \A w \in Worker : at[w] = "idle"
    BY <1>3 DEF JobEnds, AllLeft, WorkersInv, InWork
  <2> QED BY <1>3, <2>1, IdleKeepsWorkers DEF JobEnds, workVars, analysisVars, processorVars
<1>4. CASE ~StartPipeline /\ ~JobEnds
  <2>1. main # "running" /\ main' # "running" /\ UNCHANGED workVars
    BY <1>4
    DEF MainStep, Configure, EnsureModel, Fetch, FoundAfterAll, Fetched, FetchThrows, MakeAnalyser,
        LoadSource, SourcesLoaded, CheckTargets, BeginJob, ServiceReady, TaskEnds, Look, Ends,
        Throws, workVars, analysisVars, processorVars, frameVars
  <2> QED BY <1>1, <2>1, IdleKeepsWorkers
<1> QED BY <1>2, <1>3, <1>4

\* No step lets a loader and a user meet.
LEMMA NextKeepsWorkers == WorkersInv /\ [Next]_vars => WorkersInv'
<1> SUFFICES ASSUME WorkersInv, [Next]_vars
             PROVE  WorkersInv'
  OBVIOUS
<1>1. CASE UNCHANGED vars
  BY <1>1, IdleKeepsWorkers DEF vars, workVars, analysisVars, processorVars, mainVars
<1>2. CASE MainStep
  BY <1>2, MainKeepsWorkers
<1>3. CASE Workers
  BY <1>3, WorkerKeepsWorkers DEF Workers, mainVars
<1>4. CASE Other
  BY <1>4, IdleKeepsWorkers DEF Other, workVars, analysisVars, processorVars, mainVars
<1> QED BY <1>1, <1>2, <1>3, <1>4 DEF Next

\* The program starts with idle workers and nothing loaded.
LEMMA WorkersBegin == Init => WorkersInv
<1> SUFFICES ASSUME Init
             PROVE  WorkersInv
  OBVIOUS
<1>1. /\ \A w \in Worker : at[w] = "idle"
      /\ at = [w \in Worker |-> "idle"]
      /\ step = [w \in Worker |-> 0] /\ frame = [w \in Worker |-> 0]
      /\ next = 1 /\ left = {} /\ procs = <<>> /\ loaded = <<>> /\ loader = <<>>
  BY DEF Init, ProcessorsInit
<1>2. WorkerTypes
  BY <1>1 DEF WorkerTypes, Places
<1>3. InWork /\ Locking
  BY <1>1 DEF InWork, Locking
<1> QED BY <1>2, <1>3 DEF WorkersInv

\* While a worker loads the model of an adapter no other worker is inside that model
\* or loads it, although the flag is read without the mutex (ensure_loaded of the
\* adapters), with any number of workers, jobs and adapters.
THEOREM LoadExcludesUse == Spec => []NoUseDuringLoad
<1>1. WorkersInv => NoUseDuringLoad
  BY DEF WorkersInv, Locking, NoUseDuringLoad
<1> QED BY <1>1, WorkersBegin, NextKeepsWorkers, PTL DEF Spec

-----------------------------------------------------------------------------
(* FlattenSeq.  It is defined by recursion along the parts: that the recursion *)
(* defines something, and what holds of it, is shown for the least place at    *)
(* which it might fail.                                                        *)

\* A nonempty set of natural numbers has a least element.
LEMMA Least ==
  ASSUME NEW T \in SUBSET Nat, T # {}
  PROVE  \E x \in T : \A y \in T : x <= y
<1>1. PICK x \in T : \A y \in T : ~(<<y, x>> \in OpToRel(<, Nat))
  BY WFMin, NatLessThanWellFounded, T \subseteq Nat, T # {}
<1>2. \A y \in T : ~(y < x)
  BY <1>1 DEF OpToRel
<1>3. QED
  BY <1>2

\* What FlattenSeq computes on the way to n.
Flattened(s, n, f) == f = [i \in 1..n |-> IF i = 1 THEN s[i] ELSE f[i - 1] \o s[i]]

\* There is such a function ...
LEMMA FlattenedExists ==
  ASSUME NEW s, NEW n \in Nat
  PROVE  \E f : Flattened(s, n, f)
<1> DEFINE Bad == {m \in Nat : ~ \E f : Flattened(s, m, f)}
<1>1. SUFFICES ASSUME Bad # {}
               PROVE  FALSE
  OBVIOUS
<1>2. PICK m \in Bad : \A k \in Bad : m <= k
  BY <1>1, Least
<1>3. m # 0
  <2>1. Flattened(s, 0, [i \in 1..0 |-> 0])
    BY DEF Flattened
  <2> QED BY <2>1
<1>4. m \in Nat /\ m - 1 \in Nat /\ m - 1 \notin Bad
  BY <1>2, <1>3
<1>5. PICK f : Flattened(s, m - 1, f)
  BY <1>4
<1> DEFINE g == [i \in 1..m |-> IF i = 1 THEN s[i] ELSE f[i - 1] \o s[i]]
<1>6. \A i \in 1..(m - 1) : g[i] = f[i]
  <2>1. f = [i \in 1..(m - 1) |-> IF i = 1 THEN s[i] ELSE f[i - 1] \o s[i]]
    BY <1>5 DEF Flattened
  <2>2. \A i \in 1..(m - 1) : f[i] = IF i = 1 THEN s[i] ELSE f[i - 1] \o s[i]
    BY <2>1
  <2>3. \A i \in 1..(m - 1) : i \in 1..m
    BY <1>4
  <2> QED BY <2>2, <2>3
<1>7. g = [i \in 1..m |-> IF i = 1 THEN s[i] ELSE g[i - 1] \o s[i]]
  <2>1. \A i \in 1..m : i # 1 => i - 1 \in 1..(m - 1)
    BY <1>4
  <2> QED BY <1>6, <2>1
<1>8. Flattened(s, m, g)
  BY <1>7 DEF Flattened
<1> QED BY <1>8

\* ... and one only.
LEMMA FlattenedAgree ==
  ASSUME NEW s, NEW n \in Nat, NEW f, NEW m \in Nat, NEW g,
         Flattened(s, n, f), Flattened(s, m, g), n <= m
  PROVE  \A i \in 1..n : f[i] = g[i]
<1> DEFINE Bad == {i \in 1..n : f[i] # g[i]}
<1>1. SUFFICES ASSUME Bad # {}
               PROVE  FALSE
  OBVIOUS
<1>2. PICK i \in Bad : \A k \in Bad : i <= k
  <2>1. Bad \in SUBSET Nat
    OBVIOUS
  <2> QED BY <1>1, <2>1, Least
<1>3. /\ f[i] = IF i = 1 THEN s[i] ELSE f[i - 1] \o s[i]
      /\ g[i] = IF i = 1 THEN s[i] ELSE g[i - 1] \o s[i]
  <2>1. i \in 1..n /\ i \in 1..m
    OBVIOUS
  <2>2. f = [k \in 1..n |-> IF k = 1 THEN s[k] ELSE f[k - 1] \o s[k]]
    BY DEF Flattened
  <2>3. g = [k \in 1..m |-> IF k = 1 THEN s[k] ELSE g[k - 1] \o s[k]]
    BY DEF Flattened
  <2>4. f[i] = IF i = 1 THEN s[i] ELSE f[i - 1] \o s[i]
    BY <2>1, <2>2
  <2>5. g[i] = IF i = 1 THEN s[i] ELSE g[i - 1] \o s[i]
    BY <2>1, <2>3
  <2> QED BY <2>4, <2>5
<1>4. i # 1 => i - 1 \in 1..n /\ i - 1 \notin Bad
  BY <1>2
<1> QED BY <1>3, <1>4


\* FlattenSeq is the last value of that function.
LEMMA FlattenIs ==
  ASSUME NEW s, NEW n \in Nat \ {0}, Len(s) = n
  PROVE  \E f : Flattened(s, n, f) /\ FlattenSeq(s) = f[n]
<1> DEFINE F == CHOOSE f : f = [i \in 1..n |-> IF i = 1 THEN s[i] ELSE f[i - 1] \o s[i]]
<1>1. Flattened(s, n, F)
  <2>1. \E f : f = [i \in 1..n |-> IF i = 1 THEN s[i] ELSE f[i - 1] \o s[i]]
    BY FlattenedExists DEF Flattened
  <2> QED BY <2>1 DEF Flattened
<1>2. FlattenSeq(s) = F[n]
  BY DEF FlattenSeq
<1> QED BY <1>1, <1>2

\* On the way elements only come from the parts, and all those of the parts so far do.
LEMMA FlattenedHolds ==
  ASSUME NEW S, NEW s \in Seq(Seq(S)), NEW n \in Nat, n <= Len(s), NEW f, Flattened(s, n, f)
  PROVE  \A i \in 1..n : f[i] \in Seq(S) /\ \A j \in 1..i : ToSet(s[j]) \subseteq ToSet(f[i])
<1> DEFINE Good(i) == f[i] \in Seq(S) /\ \A j \in 1..i : ToSet(s[j]) \subseteq ToSet(f[i])
           Bad == {i \in 1..n : ~Good(i)}
<1> HIDE DEF Good
<1>1. SUFFICES ASSUME Bad # {}
               PROVE  \A i \in 1..n : Good(i)
  BY DEF Good
<1>2. PICK i \in Bad : \A k \in Bad : i <= k
  <2>1. Bad \in SUBSET Nat
    OBVIOUS
  <2> QED BY <1>1, <2>1, Least
<1>3. i \in 1..n /\ ~Good(i)
  OBVIOUS
<1>4. f[i] = IF i = 1 THEN s[i] ELSE f[i - 1] \o s[i]
  <2>1. f = [k \in 1..n |-> IF k = 1 THEN s[k] ELSE f[k - 1] \o s[k]]
    BY DEF Flattened
  <2> QED BY <1>3, <2>1
<1>5. s[i] \in Seq(S)
  BY <1>3
<1>6. CASE i = 1
  <2>1. \A j \in 1..i : j = i
    BY <1>6
  <2>2. Good(i)
    BY <1>4, <1>5, <1>6, <2>1 DEF Good
  <2> QED BY <1>3, <2>2
<1>7. CASE i # 1
  <2>1. i - 1 \in 1..n /\ Good(i - 1)
    <3>1. i - 1 \in 1..n /\ ~(i <= i - 1)
      BY <1>3, <1>7
    <3>2. i - 1 \notin Bad
      BY <1>2, <3>1
    <3> QED BY <3>1, <3>2
  <2> DEFINE g == f[i - 1]
             t == s[i]
  <2>2. f[i] = g \o t /\ g \in Seq(S) /\ t \in Seq(S)
    BY <1>4, <1>5, <1>7, <2>1 DEF Good
  <2>3. \A j \in 1..(i - 1) : ToSet(s[j]) \subseteq ToSet(g)
    BY <2>1 DEF Good
  <2> HIDE DEF g
  <2>4. g \o t \in Seq(S)
    BY <2>2
  <2>5. ToSet(g) \subseteq ToSet(g \o t) /\ ToSet(t) \subseteq ToSet(g \o t)
    <3>1. \A k \in DOMAIN g : k \in DOMAIN (g \o t) /\ (g \o t)[k] = g[k]
      BY <2>2
    <3>2. \A k \in DOMAIN t : Len(g) + k \in DOMAIN (g \o t) /\ (g \o t)[Len(g) + k] = t[k]
      BY <2>2
    <3> QED BY <3>1, <3>2 DEF ToSet
  <2>6. \A j \in 1..i : j \in 1..(i - 1) \/ j = i
    BY <1>3
  <2>7. Good(i)
    BY <2>2, <2>3, <2>4, <2>5, <2>6 DEF Good
  <2> QED BY <1>3, <2>7
<1> QED BY <1>6, <1>7

\* The elements of a flattened sequence are those of its parts.
LEMMA FlattenHolds ==
  ASSUME NEW S, NEW s \in Seq(Seq(S))
  PROVE  FlattenSeq(s) \in Seq(S) /\ \A j \in DOMAIN s : ToSet(s[j]) \subseteq ToSet(FlattenSeq(s))
<1>1. CASE Len(s) = 0
  BY <1>1 DEF FlattenSeq
<1>2. CASE Len(s) # 0
  <2>1. Len(s) \in Nat \ {0} /\ Len(s) \in 1..Len(s) /\ DOMAIN s = 1..Len(s)
    BY <1>2
  <2>2. PICK f : Flattened(s, Len(s), f) /\ FlattenSeq(s) = f[Len(s)]
    BY <2>1, FlattenIs
  <2>3. \A i \in 1..Len(s) : f[i] \in Seq(S) /\ \A j \in 1..i : ToSet(s[j]) \subseteq ToSet(f[i])
    <3>1. Len(s) \in Nat /\ Len(s) <= Len(s)
      OBVIOUS
    <3> QED BY <2>2, <3>1, FlattenedHolds
  <2> QED BY <2>1, <2>2, <2>3
<1> QED BY <1>1, <1>2

\* If it is empty so are they.
LEMMA FlattenEmpty ==
  ASSUME NEW S, NEW s \in Seq(Seq(S)), FlattenSeq(s) = <<>>
  PROVE  \A j \in DOMAIN s : s[j] = <<>>
<1> SUFFICES ASSUME NEW j \in DOMAIN s
             PROVE  s[j] = <<>>
  OBVIOUS
<1>1. ToSet(s[j]) \subseteq ToSet(<<>>)
  BY FlattenHolds
<1>2. s[j] \in Seq(S)
  OBVIOUS
<1>3. ToSet(<<>>) = {}
  BY DEF ToSet
<1>4. DOMAIN s[j] = {}
  BY <1>1, <1>3 DEF ToSet
<1> QED BY <1>2, <1>4

\* A part more.
LEMMA FlattenGrows ==
  ASSUME NEW S, NEW s \in Seq(Seq(S)), NEW n \in Nat, Len(s) = n + 1,
         NEW t \in Seq(Seq(S)), Len(t) = n, \A i \in 1..n : t[i] = s[i]
  PROVE  FlattenSeq(s) = FlattenSeq(t) \o s[n + 1]
<1>1. PICK f : Flattened(s, n + 1, f) /\ FlattenSeq(s) = f[n + 1]
  BY FlattenIs
<1>2. f[n + 1] = IF n + 1 = 1 THEN s[n + 1] ELSE f[n] \o s[n + 1]
  <2>1. f = [i \in 1..(n + 1) |-> IF i = 1 THEN s[i] ELSE f[i - 1] \o s[i]]
    BY <1>1 DEF Flattened
  <2>2. n + 1 \in 1..(n + 1) /\ (n + 1) - 1 = n
    OBVIOUS
  <2> QED BY <2>1, <2>2
<1>3. s[n + 1] \in Seq(S)
  OBVIOUS
<1>4. CASE n = 0
  <2>1. FlattenSeq(t) = t /\ t = <<>>
    BY <1>4 DEF FlattenSeq
  <2> QED BY <1>1, <1>2, <1>3, <1>4, <2>1
<1>5. CASE n # 0
  <2>1. n \in Nat \ {0}
    BY <1>5
  <2>2. PICK g : Flattened(t, n, g) /\ FlattenSeq(t) = g[n]
    BY <2>1, FlattenIs
  <2>3. Flattened(s, n, g)
    <3>1. g = [i \in 1..n |-> IF i = 1 THEN t[i] ELSE g[i - 1] \o t[i]]
      BY <2>2 DEF Flattened
    <3>2. g = [i \in 1..n |-> IF i = 1 THEN s[i] ELSE g[i - 1] \o s[i]]
      BY <3>1
    <3> QED BY <3>2 DEF Flattened
  <2>4. g[n] = f[n]
    <3>1. n + 1 \in Nat /\ n <= n + 1 /\ n \in 1..n
      BY <2>1
    <3>2. \A i \in 1..n : g[i] = f[i]
      BY <1>1, <2>3, <3>1, FlattenedAgree
    <3> QED BY <3>1, <3>2
  <2>5. n + 1 # 1
    BY <1>5
  <2>6. f[n + 1] = f[n] \o s[n + 1]
    BY <1>2, <2>5
  <2> QED BY <1>1, <2>2, <2>4, <2>6
<1> QED BY <1>4, <1>5

\* What is kept of a sequence.
LEMMA KeptHolds ==
  ASSUME NEW s, IsSequence(s), NEW I
  PROVE  /\ Kept(s, I) \in Seq({s[i] : i \in DOMAIN s \cap I})
         /\ \A i \in DOMAIN s \cap I : s[i] \in ToSet(Kept(s, I))
<1> DEFINE S == {s[i] : i \in DOMAIN s \cap I}
           t == [i \in DOMAIN s |-> IF i \in I THEN <<s[i]>> ELSE <<>>]
<1>1. DOMAIN s = 1..Len(s) /\ Len(s) \in Nat
  BY DEF IsSequence
<1>2. t \in Seq(Seq(S))
  <2>1. ASSUME NEW i \in DOMAIN s
        PROVE  t[i] \in Seq(S)
    <3>1. CASE i \in I
      <4>1. s[i] \in S /\ t[i] = <<s[i]>>
        BY <3>1
      <4> HIDE DEF S, t
      <4> QED BY <4>1
    <3>2. CASE i \notin I
      <4>1. t[i] = <<>>
        BY <3>2
      <4> HIDE DEF S, t
      <4> QED BY <4>1
    <3> QED BY <3>1, <3>2
  <2> QED BY <1>1, <2>1
<1>3. Kept(s, I) = FlattenSeq(t)
  BY DEF Kept
<1>4. ASSUME NEW i \in DOMAIN s \cap I
      PROVE  s[i] \in ToSet(t[i]) /\ i \in DOMAIN t
  <2>1. t[i] = <<s[i]>> /\ 1 \in DOMAIN t[i] /\ t[i][1] = s[i]
    OBVIOUS
  <2> QED BY <2>1 DEF ToSet
<1> HIDE DEF t, S
<1>5. FlattenSeq(t) \in Seq(S) /\ \A j \in DOMAIN t : ToSet(t[j]) \subseteq ToSet(FlattenSeq(t))
  BY <1>2, FlattenHolds
<1> QED BY <1>3, <1>4, <1>5 DEF S

-----------------------------------------------------------------------------
(* Validation *)

\* A sequence over any set is one over its own elements.
LEMMA SequenceOver ==
  ASSUME NEW S, NEW s \in Seq(S)
  PROVE  IsSequence(s) /\ ToSet(s) \subseteq S
<1>1. \A i \in 1..Len(s) : s[i] \in ToSet(s)
  BY DEF ToSet
<1> QED BY <1>1 DEF IsSequence, ToSet

\* Two lists of errors are empty together.
LEMMA NothingJoined ==
  ASSUME NEW S, NEW s \in Seq(S), NEW t \in Seq(S)
  PROVE  s \o t \in Seq(S) /\ (s \o t = <<>> => s = <<>> /\ t = <<>>)
OBVIOUS

Codes == {202, 204, 205, 206}

\* An error that is not there.
LEMMA UnlessHolds ==
  ASSUME NEW condition \in BOOLEAN, NEW code \in Codes
  PROVE  Unless(condition, code) \in Seq(Codes) /\ (Unless(condition, code) = <<>> <=> condition)
BY DEF Unless

\* Paths without an error.
LEMMA PathErrorsHold ==
  ASSUME NEW path
  PROVE  PathErrors(path) \in Seq(Codes) /\ (PathErrors(path) = <<>> => path \in Existing \cup {""})
<1>1. 206 \in Codes /\ (path = "" \/ path \in Existing) \in BOOLEAN
  BY DEF Codes
<1> QED BY <1>1, UnlessHolds DEF PathErrors

\* No error means that there are paths and they exist, or are empty.
LEMMA PathsErrorsHold ==
  ASSUME NEW paths, IsSequence(paths)
  PROVE  /\ PathsErrors(paths) \in Seq(Codes)
         /\ PathsErrors(paths) = <<>> => ToSet(paths) \subseteq Existing \cup {""}
<1> DEFINE each == [i \in DOMAIN paths |-> PathErrors(paths[i])]
           none == Unless(paths # <<>>, 205)
<1>1. none \in Seq(Codes)
  <2>1. 205 \in Codes /\ (paths # <<>>) \in BOOLEAN
    BY DEF Codes
  <2> QED BY <2>1, UnlessHolds
<1>2. each \in Seq(Seq(Codes)) /\ DOMAIN each = DOMAIN paths
  <2>1. \A i \in DOMAIN paths : each[i] \in Seq(Codes)
    BY PathErrorsHold
  <2>2. DOMAIN paths = 1..Len(paths) /\ Len(paths) \in Nat
    BY DEF IsSequence
  <2> HIDE DEF each
  <2>3. each = [i \in 1..Len(paths) |-> each[i]] 
    BY <2>2 DEF each
  <2> QED BY <2>1, <2>2, <2>3
<1>3. PathsErrors(paths) = none \o FlattenSeq(each)
  BY DEF PathsErrors
<1> HIDE DEF none
<1>4. FlattenSeq(each) \in Seq(Codes)
  BY <1>2, FlattenHolds
<1>5. PathsErrors(paths) \in Seq(Codes)
  BY <1>1, <1>3, <1>4, NothingJoined
<1>6. ASSUME PathsErrors(paths) = <<>>
      PROVE  ToSet(paths) \subseteq Existing \cup {""}
  <2>1. FlattenSeq(each) = <<>>
    BY <1>1, <1>3, <1>4, <1>6, NothingJoined
  <2>2. \A i \in DOMAIN paths : each[i] = <<>>
    BY <1>2, <2>1, FlattenEmpty
  <2> QED BY <2>2, PathErrorsHold DEF ToSet
<1> QED BY <1>5, <1>6

\* The errors of a step are among the codes.
LEMMA ParamErrorsHold ==
  ASSUME NEW s
  PROVE  ParamErrors(s) \in Seq(Codes)
<1> DEFINE p == s.params
           needsReference == s.type # "frame_enhancer" /\ p.mode = "reference"
           factor == IF s.type = "face_swapper" THEN <<>> ELSE Unless(p.factor \in 0..100, 202)
           reference == CASE ~needsReference -> <<>>
                          [] needsReference /\ p.reference = "" -> <<205>>
                          [] OTHER -> PathErrors(p.reference)
<1>1. factor \in Seq(Codes)
  <2>1. 202 \in Codes /\ (p.factor \in 0..100) \in BOOLEAN
    BY DEF Codes
  <2> QED BY <2>1, UnlessHolds
<1>2. reference \in Seq(Codes)
  <2>1. <<>> \in Seq(Codes) /\ <<205>> \in Seq(Codes)
    BY DEF Codes
  <2>2. PathErrors(p.reference) \in Seq(Codes)
    BY PathErrorsHold
  <2> HIDE DEF p, needsReference
  <2>3. CASE ~needsReference
    BY <2>1, <2>3
  <2>4. CASE needsReference /\ p.reference = ""
    BY <2>1, <2>4
  <2>5. CASE needsReference /\ p.reference # ""
    BY <2>2, <2>5
  <2> QED BY <2>3, <2>4, <2>5
<1>3. ParamErrors(s) = IF p.kind # s.type THEN <<>> ELSE factor \o reference
  BY DEF ParamErrors
<1> HIDE DEF factor, reference, p
<1>4. factor \o reference \in Seq(Codes)
  BY <1>1, <1>2, NothingJoined
<1> QED BY <1>3, <1>4

\* No error means that there are only steps of the known types.
LEMMA PipelineErrorsHold ==
  ASSUME NEW steps, IsSequence(steps)
  PROVE  /\ PipelineErrors(steps) \in Seq(Codes)
         /\ PipelineErrors(steps) = <<>> => \A i \in DOMAIN steps : steps[i].type \in StepTypes
<1> DEFINE type(i) == Unless(steps[i].type \in StepTypes, 202)
           each == [i \in DOMAIN steps |-> type(i) \o ParamErrors(steps[i])]
           none == Unless(steps # <<>>, 205)
<1>1. none \in Seq(Codes)
  <2>1. 205 \in Codes /\ (steps # <<>>) \in BOOLEAN
    BY DEF Codes
  <2> QED BY <2>1, UnlessHolds
<1>2. ASSUME NEW i \in DOMAIN steps
      PROVE  /\ each[i] \in Seq(Codes)
             /\ each[i] = <<>> => steps[i].type \in StepTypes
  <2>1. 202 \in Codes /\ (steps[i].type \in StepTypes) \in BOOLEAN
    BY DEF Codes
  <2>2. type(i) \in Seq(Codes) /\ (type(i) = <<>> <=> steps[i].type \in StepTypes)
    BY <2>1, UnlessHolds
  <2>3. each[i] = type(i) \o ParamErrors(steps[i])
    OBVIOUS
  <2> HIDE DEF type, each
  <2> QED BY <2>2, <2>3, ParamErrorsHold, NothingJoined
<1>3. each \in Seq(Seq(Codes)) /\ DOMAIN each = DOMAIN steps
  <2>1. DOMAIN steps = 1..Len(steps) /\ Len(steps) \in Nat /\ DOMAIN each = DOMAIN steps
    BY DEF IsSequence
  <2>2. each = [i \in 1..Len(steps) |-> each[i]]
    BY <2>1
  <2> HIDE DEF each
  <2> QED BY <1>2, <2>1, <2>2
<1>4. PipelineErrors(steps) = none \o FlattenSeq(each)
  BY DEF PipelineErrors
<1> HIDE DEF none, each
<1>5. FlattenSeq(each) \in Seq(Codes)
  BY <1>3, FlattenHolds
<1>6. PipelineErrors(steps) \in Seq(Codes)
  BY <1>1, <1>4, <1>5, NothingJoined
<1>7. ASSUME PipelineErrors(steps) = <<>>
      PROVE  \A i \in DOMAIN steps : steps[i].type \in StepTypes
  <2>1. FlattenSeq(each) = <<>>
    BY <1>1, <1>4, <1>5, <1>7, NothingJoined
  <2>2. \A i \in DOMAIN steps : each[i] = <<>>
    BY <1>3, <2>1, FlattenEmpty
  <2> QED BY <1>2, <2>2
<1> QED BY <1>6, <1>7

\* What the first error in the order of the checks says about the whole.
LEMMA ValidTask ==
  ASSUME NEW t, IsSequence(t.sources), IsSequence(t.targets), IsSequence(t.pipeline),
         Verdict(t) = 0
  PROVE  /\ ToSet(t.sources) \cup ToSet(t.targets) \subseteq Existing \cup {""}
         /\ t.settings.video_quality \in 0..100 /\ t.settings.score_threshold \in 0..100
         /\ \A i \in DOMAIN t.pipeline : t.pipeline[i].type \in StepTypes
<1> DEFINE info == InfoErrors(t)
           sources == PathsErrors(t.sources)
           targets == PathsErrors(t.targets)
           output == Unless(t.output # "", 205)
           quality == Unless(t.settings.video_quality \in 0..100, 202)
           format == Unless(t.settings.image_format \in {"png", "jpg", "bmp", "jpeg"}, 202)
           score == Unless(t.settings.score_threshold \in 0..100, 202)
           similarity == Unless(t.settings.similarity_threshold \in 0..100, 202)
           steps == PipelineErrors(t.pipeline)
<1>1. 202 \in Codes /\ 204 \in Codes /\ 205 \in Codes
  BY DEF Codes
<1>2. info \in Seq(Codes)
  <2>1. Unless(t.version \in {"", SupportedVersion}, 204) \in Seq(Codes)
    BY <1>1, UnlessHolds, (t.version \in {"", SupportedVersion}) \in BOOLEAN
  <2>2. Unless(t.id \in WellFormedId, 202) \in Seq(Codes)
    BY <1>1, UnlessHolds, (t.id \in WellFormedId) \in BOOLEAN
  <2>3. <<205>> \in Seq(Codes)
    BY <1>1
  <2> DEFINE version == Unless(t.version \in {"", SupportedVersion}, 204)
             id == IF t.id = "" THEN <<205>> ELSE Unless(t.id \in WellFormedId, 202)
  <2>4. id \in Seq(Codes) /\ version \in Seq(Codes)
    BY <2>1, <2>2, <2>3
  <2>5. info = version \o id
    BY DEF InfoErrors
  <2> HIDE DEF version, id, info
  <2> QED BY <2>4, <2>5, NothingJoined
<1>3. /\ sources \in Seq(Codes) /\ targets \in Seq(Codes)
      /\ sources = <<>> => ToSet(t.sources) \subseteq Existing \cup {""}
      /\ targets = <<>> => ToSet(t.targets) \subseteq Existing \cup {""}
  BY PathsErrorsHold
<1>4. output \in Seq(Codes)
  BY <1>1, UnlessHolds, (t.output # "") \in BOOLEAN
<1>5. quality \in Seq(Codes) /\ (quality = <<>> => t.settings.video_quality \in 0..100)
  BY <1>1, UnlessHolds, (t.settings.video_quality \in 0..100) \in BOOLEAN
<1>6. format \in Seq(Codes)
  BY <1>1, UnlessHolds, (t.settings.image_format \in {"png", "jpg", "bmp", "jpeg"}) \in BOOLEAN
<1>7. score \in Seq(Codes) /\ (score = <<>> => t.settings.score_threshold \in 0..100)
  BY <1>1, UnlessHolds, (t.settings.score_threshold \in 0..100) \in BOOLEAN
<1>8. similarity \in Seq(Codes)
  BY <1>1, UnlessHolds, (t.settings.similarity_threshold \in 0..100) \in BOOLEAN
<1>9. /\ steps \in Seq(Codes)
      /\ steps = <<>> => \A i \in DOMAIN t.pipeline : t.pipeline[i].type \in StepTypes
  BY PipelineErrorsHold
<1>10. Errors(t) = (((((info \o sources) \o targets) \o ((output \o quality) \o format))
                       \o (score \o similarity)) \o steps)
  BY DEF Errors, OutputErrors, AnalysisErrors
<1> HIDE DEF info, sources, targets, output, quality, format, score, similarity, steps
<1>11. (output \o quality) \o format \in Seq(Codes) /\ score \o similarity \in Seq(Codes)
  BY <1>4, <1>5, <1>6, <1>7, <1>8, NothingJoined
<1>12. (info \o sources) \o targets \in Seq(Codes)
  BY <1>2, <1>3, NothingJoined
<1> DEFINE most == ((info \o sources) \o targets) \o ((output \o quality) \o format)
<1>13. most \in Seq(Codes)
  BY <1>11, <1>12, NothingJoined
<1>14. most \o (score \o similarity) \in Seq(Codes)
  BY <1>11, <1>13, NothingJoined
<1>15. Errors(t) \in Seq(Codes)
  BY <1>9, <1>10, <1>14, NothingJoined
<1>16. Errors(t) = <<>>
  <2>1. Errors(t) # <<>> => Head(Errors(t)) \in Codes
    BY <1>15
  <2> QED BY <2>1 DEF Verdict, Codes
<1>17. steps = <<>> /\ most = <<>> /\ score \o similarity = <<>>
  <2> HIDE DEF most
  <2>1. steps = <<>> /\ most \o (score \o similarity) = <<>>
    <3> DEFINE before == most \o (score \o similarity)
    <3>1. Errors(t) = before \o steps /\ before \in Seq(Codes)
      BY <1>10, <1>14 DEF most
    <3> HIDE DEF before
    <3>2. steps = <<>> /\ before = <<>>
      BY <1>9, <1>16, <3>1, NothingJoined
    <3> QED BY <3>2 DEF before
  <2> QED BY <1>11, <1>13, <2>1, NothingJoined
<1>18. (info \o sources) \o targets = <<>> /\ (output \o quality) \o format = <<>>
  BY <1>11, <1>12, <1>17, NothingJoined
<1>19. sources = <<>> /\ targets = <<>>
  <2>1. info \o sources \in Seq(Codes)
    BY <1>2, <1>3, NothingJoined
  <2>2. info \o sources = <<>> /\ targets = <<>>
    BY <1>3, <1>18, <2>1, NothingJoined
  <2> QED BY <1>2, <1>3, <2>2, NothingJoined
<1>20. quality = <<>> /\ score = <<>>
  BY <1>4, <1>5, <1>6, <1>7, <1>8, <1>17, <1>18, NothingJoined
<1> QED BY <1>3, <1>5, <1>7, <1>9, <1>17, <1>19, <1>20

\* Paths are expanded to paths that are not empty.
LEMMA ExpandHolds ==
  ASSUME NEW paths, IsSequence(paths), NEW kinds
  PROVE  LET all == ExpandPaths(paths, kinds) IN IsSequence(all) /\ "" \notin ToSet(all)
<1> DEFINE S == (ToSet(paths) \cup DOMAIN KindOf) \ {""}
           each == [i \in DOMAIN paths |->
                      CASE paths[i] = "" -> <<>>
                        [] paths[i] \in DOMAIN FilesIn ->
                             LET files == FilesIn[paths[i]]
                             IN Kept(files, {n \in DOMAIN files : KindOf[files[n]] \in kinds})
                        [] OTHER -> <<paths[i]>>]
<1>1. ASSUME NEW i \in DOMAIN paths
      PROVE  each[i] \in Seq(S)
  <2> DEFINE files == FilesIn[paths[i]]
             kept == Kept(files, {n \in DOMAIN files : KindOf[files[n]] \in kinds})
  <2>1. CASE paths[i] = ""
    <3>1. each[i] = <<>>
      BY <2>1, TaskConfigAssumption
    <3> HIDE DEF each, S
    <3> QED BY <3>1
  <2>2. CASE paths[i] # "" /\ paths[i] \in DOMAIN FilesIn
    <3>1. files \in Seq(DOMAIN KindOf \ {""})
      BY <2>2, TaskConfigAssumption
    <3>2. IsSequence(files) /\ ToSet(files) \subseteq DOMAIN KindOf \ {""}
      BY <3>1, SequenceOver
    <3>3. kept \in Seq({files[n] : n \in DOMAIN files
                                      \cap {k \in DOMAIN files : KindOf[files[k]] \in kinds}})
      BY <3>2, KeptHolds
    <3>4. {files[n] : n \in DOMAIN files \cap {k \in DOMAIN files : KindOf[files[k]] \in kinds}}
            \subseteq S
      BY <3>2 DEF ToSet
    <3>5. each[i] = kept
      BY <2>2
    <3> HIDE DEF kept, files, each, S
    <3> QED BY <3>3, <3>4, <3>5
  <2>3. CASE paths[i] # "" /\ paths[i] \notin DOMAIN FilesIn
    <3>1. each[i] = <<paths[i]>> /\ paths[i] \in S
      BY <2>3 DEF ToSet
    <3> HIDE DEF each, S
    <3> QED BY <3>1
  <2> QED BY <2>1, <2>2, <2>3
<1>2. each \in Seq(Seq(S))
  <2>1. DOMAIN paths = 1..Len(paths) /\ Len(paths) \in Nat /\ DOMAIN each = DOMAIN paths
    BY DEF IsSequence
  <2>2. each = [i \in 1..Len(paths) |-> each[i]]
    BY <2>1
  <2> HIDE DEF each, S
  <2> QED BY <1>1, <2>1, <2>2
<1>3. ExpandPaths(paths, kinds) = FlattenSeq(each)
  BY DEF ExpandPaths
<1> HIDE DEF each
<1>4. ExpandPaths(paths, kinds) \in Seq(S)
  BY <1>2, <1>3, FlattenHolds
<1>5. "" \notin S
  OBVIOUS
<1> HIDE DEF S
<1> QED BY <1>4, <1>5, SequenceOver

\* A sequence made from another one, place by place.
LEMMA MappedSequence ==
  ASSUME NEW s, IsSequence(s), NEW t, t = [i \in DOMAIN s |-> t[i]]
  PROVE  IsSequence(t) /\ DOMAIN t = DOMAIN s
<1>1. DOMAIN s = 1..Len(s) /\ Len(s) \in Nat
  BY DEF IsSequence
<1>2. \A i \in 1..Len(s) : t[i] \in ToSet(t)
  BY <1>1 DEF ToSet
<1>3. t = [i \in 1..Len(s) |-> t[i]]
  BY <1>1
<1> QED BY <1>1, <1>2, <1>3 DEF IsSequence

\* The task as it is read, and with the defaults.
ReadTask(w) == IF w.quick THEN Success(QuickTask(w.command)) ELSE LoadTask(w.command)
MergedTask(w) == MergeConfigs(ReadTask(w).config, AppConfig(w.app))

\* What a document or a command line comes to when it can be read.
ReadWell(w, c) ==
  /\ IsSequence(c.sources) /\ IsSequence(c.targets) /\ IsSequence(c.pipeline)
  /\ ~w.quick => "" \notin ToSet(c.sources) \cup ToSet(c.targets)
  /\ c.settings = IF w.quick THEN Unset ELSE Over(Understood(w.command.settings), Unset)
  /\ c = [version |-> c.version, id |-> c.id, sources |-> c.sources, targets |-> c.targets,
          output |-> c.output, settings |-> c.settings, pipeline |-> c.pipeline]
  /\ \A i \in DOMAIN c.pipeline :
       LET s == c.pipeline[i]
       IN /\ s = [type |-> s.type, exact |-> s.exact, enabled |-> s.enabled, params |-> s.params]
          /\ "model" \in DOMAIN s.params /\ s.params = [f \in DOMAIN s.params |-> s.params[f]]

\* Only fields the program knows are read, each with a value it may have.
LEMMA ReadTaskHolds ==
  ASSUME NEW w \in Worlds, ReadTask(w).code = 0
  PROVE  ReadWell(w, ReadTask(w).config)
<1> DEFINE c == ReadTask(w).config
           k == w.command
<1> USE WorldAssumption
<1>1. CASE w.quick
  <2> DEFINE asked == IF k.processors = <<>> THEN <<[type |-> "face_swapper", exact |-> TRUE]>>
                                             ELSE k.processors
             steps == [i \in DOMAIN asked |->
                         [type |-> asked[i].type, exact |-> asked[i].exact, enabled |-> TRUE,
                          params |-> DefaultParams("face_swapper")]]
             output == IF k.output = "" THEN "./output/" ELSE k.output
  <2>1. c = [version |-> "", id |-> "quick", sources |-> k.sources, targets |-> k.targets,
             output |-> output, settings |-> Unset, pipeline |-> steps]
    BY <1>1 DEF ReadTask, Success, QuickTask
  <2>2. IsSequence(asked)
    <3>1. IsSequence(k.processors)
      BY <1>1
    <3>2. IsSequence(<<[type |-> "face_swapper", exact |-> TRUE]>>)
      <4> DEFINE one == [type |-> "face_swapper", exact |-> TRUE]
      <4> HIDE DEF one
      <4>1. <<one>> \in Seq({one})
        OBVIOUS
      <4> QED BY <4>1, SequenceOver DEF one
    <3> QED BY <3>1, <3>2
  <2> HIDE DEF asked
  <2>3. IsSequence(steps) /\ DOMAIN steps = DOMAIN asked
    <3>1. steps = [i \in DOMAIN asked |-> steps[i]]
      OBVIOUS
    <3> HIDE DEF steps
    <3> QED BY <2>2, <3>1, MappedSequence
  <2>4. \A i \in DOMAIN steps :
          LET s == steps[i]
          IN /\ s = [type |-> s.type, exact |-> s.exact, enabled |-> s.enabled,
                     params |-> s.params]
             /\ "model" \in DOMAIN s.params /\ s.params = [f \in DOMAIN s.params |-> s.params[f]]
    BY DEF DefaultParams
  <2> HIDE DEF steps, c, output
  <2>5. /\ c.sources = k.sources /\ c.targets = k.targets /\ c.pipeline = steps
        /\ c.settings = Unset
        /\ c = [version |-> c.version, id |-> c.id, sources |-> c.sources, targets |-> c.targets,
                output |-> c.output, settings |-> c.settings, pipeline |-> c.pipeline]
    BY <2>1
  <2>6. IsSequence(c.sources) /\ IsSequence(c.targets) /\ IsSequence(c.pipeline)
    BY <2>3, <2>5
  <2>7. ReadWell(w, c)
    BY <1>1, <2>4, <2>5, <2>6 DEF ReadWell
  <2> QED BY <2>7 DEF c
<1>2. CASE ~w.quick
  <2> DEFINE steps == [i \in DOMAIN k.pipeline |-> ParsedStep(k.pipeline[i])]
             sources == ExpandPaths(k.sources, {"image"})
             targets == ExpandPaths(k.targets, {"image", "video"})
             settings == Over(Understood(k.settings), Unset)
  <2>1. c = [version |-> k.version, id |-> k.id, sources |-> sources, targets |-> targets,
             output |-> k.output, settings |-> settings, pipeline |-> steps]
    <3>1. LoadTask(k).code = 0
      BY <1>2 DEF ReadTask
    <3>2. ReadFailure(k) = 0 /\ ~ \E i \in DOMAIN k.pipeline : StepIsWrong(k.pipeline[i])
      BY <3>1 DEF LoadTask, Failure, ReadFailure
    <3> HIDE DEF sources, targets, settings, steps
    <3> QED BY <1>2, <3>2 DEF ReadTask, LoadTask, Success, sources, targets, settings, steps
  <2>2. /\ IsSequence(sources) /\ "" \notin ToSet(sources)
        /\ IsSequence(targets) /\ "" \notin ToSet(targets)
    BY ExpandHolds
  <2>3. IsSequence(steps) /\ DOMAIN steps = DOMAIN k.pipeline
    <3>1. steps = [i \in DOMAIN k.pipeline |-> steps[i]]
      OBVIOUS
    <3>2. IsSequence(k.pipeline)
      BY <1>2
    <3> HIDE DEF steps
    <3> QED BY <3>1, <3>2, MappedSequence
  <2>4. \A i \in DOMAIN steps :
          LET s == steps[i]
          IN /\ s = [type |-> s.type, exact |-> s.exact, enabled |-> s.enabled,
                     params |-> s.params]
             /\ "model" \in DOMAIN s.params /\ s.params = [f \in DOMAIN s.params |-> s.params[f]]
    <3> SUFFICES ASSUME NEW i \in DOMAIN k.pipeline
                 PROVE  LET s == ParsedStep(k.pipeline[i])
                        IN /\ s = [type |-> s.type, exact |-> s.exact, enabled |-> s.enabled,
                                   params |-> s.params]
                           /\ "model" \in DOMAIN s.params
                           /\ s.params = [f \in DOMAIN s.params |-> s.params[f]]
      OBVIOUS
    <3> DEFINE said == k.pipeline[i].params
               all == Over(said, DefaultParams(k.pipeline[i].type))
    <3>1. "model" \in DOMAIN all /\ all = [f \in DOMAIN all |-> all[f]]
      BY DEF Over, DefaultParams
    <3>2. ParsedStep(k.pipeline[i]) =
            [type |-> k.pipeline[i].type, exact |-> k.pipeline[i].exact,
             enabled |-> k.pipeline[i].enabled, params |-> all]
      BY DEF ParsedStep
    <3> HIDE DEF all
    <3> QED BY <3>1, <3>2
  <2> HIDE DEF sources, targets, settings, steps, c
  <2>5. /\ c.sources = sources /\ c.targets = targets /\ c.pipeline = steps
        /\ c.settings = settings
        /\ c = [version |-> c.version, id |-> c.id, sources |-> c.sources, targets |-> c.targets,
                output |-> c.output, settings |-> c.settings, pipeline |-> c.pipeline]
    BY <2>1
  <2>6. IsSequence(c.sources) /\ IsSequence(c.targets) /\ IsSequence(c.pipeline)
    BY <2>2, <2>3, <2>5
  <2>7. ReadWell(w, c)
    BY <1>2, <2>2, <2>4, <2>5, <2>6 DEF ReadWell, settings
  <2> QED BY <2>7 DEF c
<1> QED BY <1>1, <1>2

-----------------------------------------------------------------------------
(* What is known of a task that has passed the validation *)

Planned(w, t) ==
  /\ IsSequence(t.sources) /\ IsSequence(t.targets) /\ IsSequence(t.pipeline)
  /\ ToSet(t.sources) \cup ToSet(t.targets) \subseteq Existing \cup {none \in {""} : w.quick}
  /\ t.settings.score_threshold \in 1..100 /\ t.settings.video_quality \in 1..100
  /\ EffectiveThreads(t.settings.thread_count) > 0 /\ t.settings.max_queue_size # 0
  /\ ~w.quick =>
       LET said == Understood(w.command.settings)
       IN \A f \in DOMAIN said : said[f] # Unset[f] => t.settings[f] = said[f]
  /\ \A i \in DOMAIN t.pipeline :
       LET s == t.pipeline[i]
       IN /\ s.type \in StepTypes
          /\ s.exact /\ s.params.kind = s.type /\ s.params.model = "" =>
               s.type # "expression_restorer" /\ AppConfig(w.app).models[s.type] = ""

\* There is a thread in any case.
LEMMA ThreadsHold == ASSUME NEW n PROVE EffectiveThreads(n) > 0
<1>1. CASE n > 0
  BY <1>1 DEF EffectiveThreads
<1>2. CASE ~(n > 0) /\ HardwareThreads = 0
  BY <1>2 DEF EffectiveThreads
<1>3. CASE ~(n > 0) /\ HardwareThreads # 0
  <2> DEFINE half == HardwareThreads \div 2
             most == Max({1, half})
  <2>1. half \in Int
    <3>1. HardwareThreads \in Nat
      BY TaskConfigAssumption, Zenon
    <3> QED BY <3>1
  <2>2. \E x \in {1, half} : \A y \in {1, half} : x >= y
    <3> HIDE DEF half
    <3>1. CASE half >= 1
      BY <2>1, <3>1
    <3>2. CASE ~(half >= 1)
      BY <2>1, <3>2
    <3> QED BY <3>1, <3>2
  <2> HIDE DEF half
  <2>3. most \in {1, half} /\ \A y \in {1, half} : most >= y
    BY <2>2 DEF Max
  <2>4. most >= 1
    BY <2>3
  <2>5. most \in Int
    BY <2>1, <2>3
  <2>6. EffectiveThreads(n) = most
    BY <1>3 DEF EffectiveThreads, half
  <2> HIDE DEF most
  <2> QED BY <2>4, <2>5, <2>6
<1> QED BY <1>1, <1>2, <1>3

\* The settings of a task with the defaults of the application and then those of
\* the program.
LEMMA SettingsHold ==
  ASSUME NEW said, NEW defaults
  PROVE  LET all == Over(said, Unset)
             done == Completed(Merged(all, defaults))
         IN /\ \A f \in DOMAIN said : said[f] # Unset[f] => done[f] = said[f]
            /\ done.score_threshold # 0 /\ done.video_quality # 0 /\ done.max_queue_size # 0
<1> DEFINE all == Over(said, Unset)
           merged == Merged(all, defaults)
           done == Completed(merged)
<1>1. DOMAIN all = DOMAIN said \cup DOMAIN Unset /\ \A f \in DOMAIN said : all[f] = said[f]
  BY DEF Over
<1>2. {"score_threshold", "video_quality", "max_queue_size"} \subseteq DOMAIN Unset
  BY DEF Unset
<1>unset. /\ Unset["prefix"] = "" /\ Unset["score_threshold"] = 0 /\ Unset["video_quality"] = 0
      /\ Unset["max_queue_size"] = 0
  BY DEF Unset
<1> HIDE DEF all
<1>3. /\ DOMAIN merged = DOMAIN all
      /\ \A f \in DOMAIN all : all[f] # Unset[f] => merged[f] = all[f]
  BY DEF Merged
<1> HIDE DEF merged
<1>4. ASSUME NEW f \in DOMAIN said, said[f] # Unset[f]
      PROVE  done[f] = said[f]
  <2>1. merged[f] = said[f] /\ f \in DOMAIN merged
    BY <1>1, <1>3, <1>4
  <2>2. ~(f \in DOMAIN HardCoded /\ merged[f] = Unset[f])
    BY <1>4, <2>1
  <2>3. ~(f = "prefix" /\ merged.prefix = "")
    BY <1>4, <1>unset, <2>1
  <2>4. done[f] = merged[f]
    BY <2>1, <2>2, <2>3 DEF Completed
  <2> QED BY <2>1, <2>4
<1>5. ASSUME NEW f \in {"score_threshold", "video_quality", "max_queue_size"}
      PROVE  done[f] # 0
  <2>1. f \in DOMAIN merged /\ Unset[f] = 0
    BY <1>1, <1>2, <1>3, <1>unset
  <2>2. f \in DOMAIN HardCoded /\ HardCoded[f] # 0
    BY DEF HardCoded
  <2>3. done[f] = IF merged[f] = 0 THEN HardCoded[f] ELSE merged[f]
    BY <2>1, <2>2 DEF Completed
  <2> QED BY <2>2, <2>3
<1>6. done["score_threshold"] # 0 /\ done["video_quality"] # 0 /\ done["max_queue_size"] # 0
  BY <1>5
<1> HIDE DEF done
<1>7. /\ \A f \in DOMAIN said : said[f] # Unset[f] => done[f] = said[f]
      /\ done.score_threshold # 0 /\ done.video_quality # 0 /\ done.max_queue_size # 0
  BY <1>4, <1>6
<1> QED BY <1>7 DEF done, merged, all

\* What the checks and the defaults leave of the two documents is a plan.
LEMMA PlanHolds ==
  ASSUME NEW w \in Worlds, ReadTask(w).code = 0, Verdict(MergedTask(w)) = 0
  PROVE  Planned(w, MergedTask(w))
<1> DEFINE c == ReadTask(w).config
           a == AppConfig(w.app)
           t == MergedTask(w)
           models == a.models
<1>1. ReadWell(w, c)
  BY ReadTaskHolds
<1> HIDE DEF c, a
<1> DEFINE settings == Completed(Merged(c.settings, a.settings))
           pipeline == [i \in DOMAIN c.pipeline |-> WithDefaultModel(c.pipeline[i], models)]
<1>2. t = [c EXCEPT !.settings = settings, !.pipeline = pipeline]
  BY DEF MergedTask, MergeConfigs, c, a
<1>3. /\ t.sources = c.sources /\ t.targets = c.targets
      /\ t.settings = settings /\ t.pipeline = pipeline
  <2> HIDE DEF settings, pipeline, t
  <2>1. c = [version |-> c.version, id |-> c.id, sources |-> c.sources, targets |-> c.targets,
             output |-> c.output, settings |-> c.settings, pipeline |-> c.pipeline]
    BY <1>1 DEF ReadWell
  <2>2. t = [version |-> c.version, id |-> c.id, sources |-> c.sources, targets |-> c.targets,
             output |-> c.output, settings |-> settings, pipeline |-> pipeline]
    BY <1>2, <2>1
  <2> HIDE DEF c
  <2> QED BY <2>2
<1>4. IsSequence(pipeline) /\ DOMAIN pipeline = DOMAIN c.pipeline
  <2>1. pipeline = [i \in DOMAIN c.pipeline |-> pipeline[i]]
    OBVIOUS
  <2>2. IsSequence(c.pipeline)
    BY <1>1 DEF ReadWell
  <2> HIDE DEF pipeline
  <2> QED BY <2>1, <2>2, MappedSequence
<1>5. ASSUME NEW i \in DOMAIN pipeline, pipeline[i].exact,
             pipeline[i].params.kind = pipeline[i].type, pipeline[i].params.model = ""
      PROVE  pipeline[i].type # "expression_restorer" /\ models[pipeline[i].type] = ""
  <2> DEFINE s == c.pipeline[i]
             r == pipeline[i]
             model == IF s.type = "expression_restorer" THEN "live_portrait" ELSE models[s.type]
             unnamed == s.exact /\ s.params.kind = s.type /\ s.params.model = ""
  <2>1. /\ s = [type |-> s.type, exact |-> s.exact, enabled |-> s.enabled, params |-> s.params]
        /\ "model" \in DOMAIN s.params /\ s.params = [f \in DOMAIN s.params |-> s.params[f]]
    BY <1>1, <1>4 DEF ReadWell
  <2>2. r = IF unnamed THEN [s EXCEPT !.params.model = model] ELSE s
    BY <1>4 DEF WithDefaultModel
  <2> HIDE DEF s, r, model, unnamed, pipeline
  <2>3. unnamed
    BY <1>5, <2>2 DEF unnamed, r
  <2>4. r.type = s.type
    BY <2>1, <2>2
  <2>5. r.params.model = model
    BY <2>1, <2>2, <2>3
  <2> QED BY <1>5, <2>4, <2>5 DEF r, model
<1> HIDE DEF pipeline, settings, t, models
<1>6. IsSequence(t.sources) /\ IsSequence(t.targets) /\ IsSequence(t.pipeline)
  BY <1>1, <1>3, <1>4 DEF ReadWell
<1>7. /\ ToSet(t.sources) \cup ToSet(t.targets) \subseteq Existing \cup {""}
      /\ t.settings.video_quality \in 0..100 /\ t.settings.score_threshold \in 0..100
      /\ \A i \in DOMAIN t.pipeline : t.pipeline[i].type \in StepTypes
  BY <1>6, ValidTask DEF t
<1>8. ~w.quick => "" \notin ToSet(t.sources) \cup ToSet(t.targets)
  BY <1>1, <1>3 DEF ReadWell
<1> DEFINE said == IF w.quick THEN Unset ELSE Understood(w.command.settings)
<1>9. c.settings = Over(said, Unset)
  <2>1. CASE w.quick
    <3>1. Unset = Over(Unset, Unset)
      BY DEF Over, Unset
    <3> QED BY <1>1, <2>1, <3>1 DEF ReadWell
  <2>2. CASE ~w.quick
    BY <1>1, <2>2 DEF ReadWell
  <2> QED BY <2>1, <2>2
<1>10. /\ \A f \in DOMAIN said : said[f] # Unset[f] => settings[f] = said[f]
       /\ settings.score_threshold # 0 /\ settings.video_quality # 0 /\ settings.max_queue_size # 0
  <2> HIDE DEF said
  <2> QED BY <1>9, SettingsHold DEF settings
<1>11. ~w.quick =>
         \A f \in DOMAIN Understood(w.command.settings) :
           Understood(w.command.settings)[f] # Unset[f] =>
             t.settings[f] = Understood(w.command.settings)[f]
  BY <1>3, <1>10
<1>12. t.settings.score_threshold \in 1..100 /\ t.settings.video_quality \in 1..100
       /\ t.settings.max_queue_size # 0
  <2>1. \A x \in 0..100 : x # 0 => x \in 1..100
    OBVIOUS
  <2> QED BY <1>3, <1>7, <1>10, <2>1
<1>13. ToSet(t.sources) \cup ToSet(t.targets) \subseteq Existing \cup {none \in {""} : w.quick}
  BY <1>7, <1>8
<1>14. \A i \in DOMAIN t.pipeline :
         LET s == t.pipeline[i]
         IN /\ s.type \in StepTypes
            /\ s.exact /\ s.params.kind = s.type /\ s.params.model = "" =>
                 s.type # "expression_restorer" /\ AppConfig(w.app).models[s.type] = ""
  BY <1>3, <1>5, <1>7 DEF models, a
<1>15. EffectiveThreads(t.settings.thread_count) > 0
  BY ThreadsHold
<1>16. Planned(w, t)
  BY <1>6, <1>11, <1>12, <1>13, <1>14, <1>15 DEF Planned
<1> QED BY <1>16 DEF t

-----------------------------------------------------------------------------
(* The main thread, from the configuration to the start of a pipeline *)

MainPlaces ==
  {"configure", "ensure", "download", "sources", "targets", "jobs", "running", "done"}

\* A model's file is where it belongs, and stays there.
There(m) == m \in listed /\ Present(m)
Ready(need) == \A m \in ToSet(need.files) : There(m)

\* The analyser is the first thing models are made sure of for.
AnalyserToCome ==
  \/ main = "configure"
  \/ main \in {"ensure", "download"} /\ needs # <<>> /\ Head(needs).type = "analyser"

Chosen ==
  /\ world \in Worlds
  /\ main \notin {"configure", "done"} => Planned(world, task) /\ app = AppConfig(world.app)

\* The download is one of the first of the files to do, which has an entry.
Downloads ==
  /\ IsSequence(todo)
  /\ main = "download" =>
       /\ todo # <<>> /\ Head(todo) \in listed
       /\ Fetching(Main) => download[Main].model = Head(todo)
  /\ main \notin {"download", "done"} => ~Fetching(Main)

\* While models are made sure of, every step has its need ahead or has it met, and
\* the files of the first need are still to do, not to be had, or there.
NeedsAreNeeds ==
  /\ IsSequence(needs)
  /\ \A n \in ToSet(needs) : n.type # "analyser" /\ IsSequence(n.files)
NeedsAheadOrMet ==
  \A i \in DOMAIN Steps :
    LET need == Need(Steps[i].type) IN need \in ToSet(needs) \/ Ready(need)
FirstNeed ==
  needs # <<>> => \A m \in ToSet(Head(needs).files) : m \in ToSet(todo) \cup absent \/ There(m)

Preparing ==
  main \in {"ensure", "download"} /\ ~AnalyserToCome =>
    NeedsAreNeeds /\ NeedsAheadOrMet /\ FirstNeed

Prepared ==
  main = "running" => procs = Adapters /\ \A i \in DOMAIN Steps : Ready(Need(Steps[i].type))

PlanInv == main \in MainPlaces /\ Chosen /\ Downloads /\ Preparing /\ Prepared

-----------------------------------------------------------------------------
(* Pictures and faces *)

Entries == {[key |-> p, faces |-> FacesOf[p]] : p \in Picture}

Paths == Existing \cup {""}

Pictures ==
  /\ jobs \in Seq(Seq(Picture)) /\ job \in Seq(Picture)
  /\ main \in {"ensure", "download"} /\ ~AnalyserToCome => jobs # <<>>
  /\ main = "sources" => IsSequence(unseen) /\ ToSet(unseen) \subseteq Paths

\* What the store holds a detector has found.
StoreInv ==
  /\ store \in Seq(Entries)
  /\ store # <<>> => detector
  /\ AnalyserToCome => store = <<>> /\ left = {}

\* One value for each worker.
OfWorkers(f) == f = [w \in Worker |-> f[w]]

FrameTypes ==
  /\ IsSequence(procs)
  /\ picture \in [Worker -> Picture \cup {Nothing}]
  /\ OfWorkers(found) /\ OfWorkers(given) /\ OfWorkers(applied)
  /\ noted \in [Worker -> SUBSET {"E403", "failed"}]
  /\ missed \subseteq Worker

AnalysisPlaces == {"ask", "read", "detect", "askAgain", "readAgain", "insert", "prepare"}
AdapterPlaces == {"test", "lock", "load", "use"}

\* What the k-th adapter does to a frame with these faces.
Work(k, faces) ==
  CASE procs[k].type = "frame_enhancer" -> <<[type |-> "frame_enhancer", faces |-> <<>>]>>
    [] procs[k].type \in {"face_swapper", "face_enhancer"} /\ faces # <<>>
         -> <<[type |-> procs[k].type, faces |-> faces]>>
    [] OTHER -> <<>>

\* What may be entered in the account of such a frame.
Entered(faces) ==
  {e \in [type : {"frame_enhancer", "face_swapper", "face_enhancer"}, faces : {<<>>, faces},
          without : SUBSET DOMAIN faces] :
     e.without # {} => e.type = "face_enhancer"}

\* What the first n adapters do.
Parts(n, faces) == [k \in 1..n |-> Work(k, faces)]

\* A frame whose faces were found and whose steps did not fail has what the steps
\* behind it give to just these faces.
Account(w) ==
  LET faces == Detected(picture[w])
  IN /\ Needed # {} => found[w] = faces
     /\ given[w] = IF faces = <<>> THEN {} ELSE Needed
     /\ "E403" \in noted[w] <=> Needed # {} /\ faces = <<>>
     /\ applied[w] \in Seq(Entered(faces))
     /\ WentThrough(applied[w]) = FlattenSeq(Parts(step[w] - 1, faces))

FrameInv(w) ==
  /\ at[w] = "idle" \/ at[w] \in AnalysisPlaces =>
       given[w] = {} /\ applied[w] = <<>> /\ noted[w] = {}
  /\ at[w] # "idle" => picture[w] = job[frame[w]]
  /\ at[w] \in AnalysisPlaces => Needed # {} /\ step[w] = 1
  /\ at[w] \in {"askAgain", "readAgain", "insert"} => found[w] = Detected(picture[w])
  /\ at[w] = "prepare" => w \in missed \/ found[w] = Detected(picture[w])
  /\ at[w] \in AdapterPlaces =>
       /\ step[w] \in 1..(Len(procs) + 1)
       /\ w \in missed \/ "failed" \in noted[w] \/ Account(w)

FacesInv ==
  Pictures /\ StoreInv /\ FrameTypes /\ (\A w \in Worker : FrameInv(w)) /\ EveryFaceTreated
-----------------------------------------------------------------------------
(* The steps of a task and what they need *)

\* The steps that are on come from the task.
LEMMA StepsHold ==
  ASSUME Planned(world, task)
  PROVE  /\ IsSequence(Steps)
         /\ \A i \in DOMAIN Steps :
              \E n \in DOMAIN task.pipeline : Steps[i] = task.pipeline[n] /\ task.pipeline[n].exact
<1> DEFINE all == task.pipeline
           I == {i \in DOMAIN all : all[i].enabled /\ all[i].exact}
<1>1. IsSequence(all)
  BY DEF Planned
<1>2. Steps = Kept(all, I)
  BY DEF Steps
<1> DEFINE S == {all[i] : i \in DOMAIN all \cap I}
<1> HIDE DEF all
<1>3. Steps \in Seq(S)
  BY <1>1, <1>2, KeptHolds
<1>4. \A x \in S : \E n \in DOMAIN all : x = all[n] /\ all[n].exact
  OBVIOUS
<1>5. \A i \in DOMAIN Steps : Steps[i] \in S
  BY <1>3
<1> HIDE DEF S
<1> QED BY <1>3, <1>4, <1>5, SequenceOver DEF all

\* The first step of a type.
LEMMA FirstHolds ==
  ASSUME IsSequence(Steps), NEW i \in DOMAIN Steps
  PROVE  \E n \in DOMAIN Steps : /\ Steps[n].type = Steps[i].type
                                 /\ FirstStep(Steps[i].type) = Steps[n]
                                 /\ \A j \in 1..(n - 1) : Steps[j].type # Steps[n].type
<1> DEFINE type == Steps[i].type
           T == {j \in DOMAIN Steps : Steps[j].type = type}
           first(n) == Steps[n].type = type /\ \A j \in 1..(n - 1) : Steps[j].type # type
<1>1. DOMAIN Steps = 1..Len(Steps) /\ Len(Steps) \in Nat
  BY DEF IsSequence
<1>2. T \in SUBSET Nat /\ T # {}
  BY <1>1
<1>3. PICK x \in T : \A y \in T : x <= y
  BY <1>2, Least
<1>4. \A j \in 1..(x - 1) : j \in DOMAIN Steps /\ ~(x <= j)
  BY <1>1
<1>5. x \in DOMAIN Steps /\ first(x)
  BY <1>3, <1>4
<1> DEFINE n == CHOOSE m \in DOMAIN Steps : first(m)
<1>6. n \in DOMAIN Steps /\ first(n)
  BY <1>5
<1>7. FirstStep(type) = Steps[n]
  BY DEF FirstStep
<1> HIDE DEF n
<1> QED BY <1>6, <1>7

\* What a step needs is a list of models.
LEMMA NeedHolds ==
  ASSUME NEW type
  PROVE  Need(type).type = type /\ IsSequence(Need(type).files)
<1> DEFINE files == Need(type).files
<1>1. Need(type).type = type
  BY DEF Need
<1>2. \E x, y, z : files \in {<<x>>, <<x, y, z>>}
  BY DEF Need, LivePortrait
<1> HIDE DEF files
<1>3. PICK x, y, z : files \in {<<x>>, <<x, y, z>>}
  BY <1>2
<1>4. <<x>> \in Seq({x, y, z}) /\ <<x, y, z>> \in Seq({x, y, z})
  OBVIOUS
<1>5. files \in Seq({x, y, z})
  BY <1>3, <1>4
<1> QED BY <1>1, <1>5, SequenceOver DEF files

\* Every step has its need among those that models are made sure of for.
LEMMA NeedsHold ==
  ASSUME IsSequence(Steps)
  PROVE  /\ IsSequence(Needs)
         /\ \A n \in ToSet(Needs) : \E i \in DOMAIN Steps : n = Need(Steps[i].type)
         /\ \A i \in DOMAIN Steps : Need(Steps[i].type) \in ToSet(Needs)
<1> DEFINE all == [i \in DOMAIN Steps |-> Need(Steps[i].type)]
           I == {i \in DOMAIN Steps : \A j \in 1..(i - 1) : Steps[j].type # Steps[i].type}
<1>1. Needs = Kept(all, I)
  BY DEF Needs
<1>2. IsSequence(all) /\ DOMAIN all = DOMAIN Steps
  <2>1. all = [i \in DOMAIN Steps |-> all[i]]
    OBVIOUS
  <2> HIDE DEF all
  <2> QED BY <2>1, MappedSequence
<1>3. \A i \in DOMAIN Steps : all[i] = Need(Steps[i].type)
  OBVIOUS
<1> HIDE DEF all
<1> DEFINE S == {all[i] : i \in DOMAIN all \cap I}
<1>4. Needs \in Seq(S) /\ \A i \in DOMAIN all \cap I : all[i] \in ToSet(Needs)
  BY <1>1, <1>2, KeptHolds
<1>5. \A x \in S : \E i \in DOMAIN Steps : x = Need(Steps[i].type)
  BY <1>2, <1>3
<1>6. ASSUME NEW i \in DOMAIN Steps
      PROVE  Need(Steps[i].type) \in ToSet(Needs)
  <2>1. PICK n \in DOMAIN Steps : /\ Steps[n].type = Steps[i].type
                                  /\ \A j \in 1..(n - 1) : Steps[j].type # Steps[n].type
    BY FirstHolds
  <2>2. n \in DOMAIN all \cap I /\ all[n] = Need(Steps[i].type)
    BY <1>2, <1>3, <2>1
  <2> QED BY <1>4, <2>2
<1> HIDE DEF S
<1>7. IsSequence(Needs) /\ ToSet(Needs) \subseteq S
  BY <1>4, SequenceOver
<1> QED BY <1>5, <1>6, <1>7

-----------------------------------------------------------------------------
(* What the files do to the others *)

\* A step of one process on the files removes none that is in place, and leaves the
\* downloads of the others alone.
FilesStay(p) ==
  /\ listed' = listed /\ listed \subseteq Model
  /\ \A m \in Model : Present(m) => Present(m)'
  /\ \A q \in Process : q # p => download'[q] = download[q]

\* A model's file that is there stays, whatever happens to the files.
LEMMA FilesDoStay ==
  ASSUME FilesInv, NEW p \in Process,
         \/ \E m \in Model : OpenTemporary(p, m)
         \/ WriteChunk(p) \/ RenameModel(p) \/ RenameFails(p) \/ DownloadFails(p)
         \/ DownloaderDies(p)
  PROVE  FilesStay(p)
<1> USE NothingAssumption
<1>0. listed \subseteq Model /\ final \in [Model -> File \cup {Nothing}]
  BY DEF FilesInv, FileTypes
<1>1. CASE RenameModel(p)
  <2> DEFINE m == download[p].model
  <2>1. /\ m \in Model /\ temporary[m] # Nothing
        /\ final' = [final EXCEPT ![m] = temporary[m]]
        /\ download' = [download EXCEPT ![p] = NoDownload] /\ listed' = listed
    BY <1>1 DEF RenameModel, Complete, FilesInv, FileTypes
  <2> HIDE DEF m
  <2> QED BY <1>0, <2>1 DEF Present, FilesStay
<1>2. CASE ~RenameModel(p)
  <2>1. final' = final /\ listed' = listed
    BY <1>2 DEF OpenTemporary, WriteChunk, RenameFails, DownloadFails, DownloaderDies
  <2>2. \A q \in Process : q # p => download'[q] = download[q]
    BY <1>2
    DEF OpenTemporary, WriteChunk, RenameFails, DownloadFails, DownloaderDies, FilesInv, FileTypes
  <2> QED BY <1>0, <2>1, <2>2 DEF FilesStay, Present
<1> QED BY <1>1, <1>2

\* Nothing changes for a need if the files do not.
LEMMA NoFileStays ==
  ASSUME FilesInv, UNCHANGED fileVars
  PROVE  FilesStay(Rival)
BY DEF fileVars, FilesStay, FilesInv, FileTypes, Present

\* What depends on the task only.
LEMMA SameTask ==
  ASSUME UNCHANGED task
  PROVE  Steps' = Steps /\ Adapters' = Adapters /\ \A type : Need(type)' = Need(type)
<1>1. Steps' = Steps
  BY DEF Steps
<1>2. \A type : FirstStep(type)' = FirstStep(type)
  BY <1>1 DEF FirstStep
<1>3. \A type : Need(type)' = Need(type)
  BY <1>2 DEF Need
<1> QED BY <1>1, <1>3 DEF Adapters

\* A need that is met stays met.
LEMMA ReadyStays ==
  ASSUME NEW p, FilesStay(p), NEW need, Ready(need)
  PROVE  Ready(need)'
BY DEF FilesStay, Ready, There

-----------------------------------------------------------------------------
(* The plan is kept *)

\* What goes on beside the main thread.
LEMMA OtherKeepsPlan ==
  ASSUME PlanInv, FilesStay(Rival), UNCHANGED <<mainVars, procs>>
  PROVE  PlanInv'
<1> USE DEF PlanInv
<1>1. UNCHANGED <<world, main, app, task, needs, todo, absent, procs>>
  BY DEF mainVars
<1>2. \A m \in Model : There(m) => There(m)'
  BY DEF FilesStay, There
<1>3. \A m : There(m) => m \in Model
  BY DEF FilesStay, There
<1>4. \A need : Ready(need) => Ready(need)'
  BY ReadyStays
<1>5. Steps' = Steps /\ Adapters' = Adapters /\ \A type : Need(type)' = Need(type)
  BY <1>1, SameTask
<1>6. AnalyserToCome' = AnalyserToCome
  BY <1>1 DEF AnalyserToCome
<1>7. Chosen'
  BY <1>1 DEF Chosen
<1>8. Downloads'
  <2>1. download'[Main] = download[Main]
    BY ProcessingAssumption DEF FilesStay
  <2> QED BY <1>1, <2>1 DEF Downloads, Fetching, FilesStay
<1>9. Preparing'
  <2>1. NeedsAreNeeds => NeedsAreNeeds'
    BY <1>1 DEF NeedsAreNeeds
  <2>2. NeedsAheadOrMet => NeedsAheadOrMet'
    BY <1>1, <1>4, <1>5 DEF NeedsAheadOrMet
  <2>3. FirstNeed => FirstNeed'
    BY <1>1, <1>2, <1>3 DEF FirstNeed
  <2> QED BY <1>1, <1>6, <2>1, <2>2, <2>3 DEF Preparing
<1>10. Prepared'
  BY <1>1, <1>4, <1>5 DEF Prepared
<1> QED BY <1>1, <1>7, <1>8, <1>9, <1>10

\* The program has ended.
LEMMA EndKeepsPlan ==
  ASSUME PlanInv, main' = "done", world' = world, IsSequence(todo)'
  PROVE  PlanInv'
BY DEF PlanInv, MainPlaces, Chosen, Downloads, Preparing, Prepared

\* The main thread goes on with the same task, not to or from a download.
LEMMA MainKeepsChoice ==
  ASSUME PlanInv, main \notin {"configure", "done", "download"},
         UNCHANGED <<world, app, task, fileVars>>,
         main' \in MainPlaces \ {"configure", "download"}, IsSequence(todo)'
  PROVE  main' \in MainPlaces /\ Chosen' /\ Downloads'
<1>1. Chosen'
  BY DEF PlanInv, Chosen
<1>2. download' = download /\ main # "done" /\ main # "download"
  BY DEF fileVars
<1>3. Downloads'
  BY <1>2 DEF PlanInv, Downloads, Fetching
<1> QED BY <1>1, <1>3

\* The analyser is the first to need models.
LEMMA AnalyserIsFirst ==
  ASSUME Configure, main' = "ensure"
  PROVE  AnalyserToCome'
<1> DEFINE need == [type |-> "analyser", model |-> "", files |-> todo']
<1>1. need.type = "analyser"
  OBVIOUS
<1>2. needs' = <<need>>
  BY DEF Configure, Ends
<1> HIDE DEF need
<1> QED BY <1>1, <1>2 DEF AnalyserToCome

\* The configuration is accepted.
LEMMA ConfigureKeepsPlan ==
  ASSUME PlanInv, Configure
  PROVE  PlanInv'
<1> DEFINE a == AppConfig(world.app)
           first == <<a.models.face_detector, a.models.face_recognizer>>
           code == ReadTask(world).code
           t == MergedTask(world)
<1>1. /\ main = "configure" /\ world' = world /\ world \in Worlds /\ download' = download
      /\ ~Fetching(Main) /\ IsSequence(todo)
  BY DEF PlanInv, Chosen, Downloads, Configure, fileVars
<1>2. \/ main' = "done" /\ todo' \in {todo, first}
      \/ /\ main' = "ensure" /\ todo' = first
         /\ code = 0 /\ Verdict(t) = 0 /\ app' = a /\ task' = t
         /\ needs' = <<[type |-> "analyser", model |-> "", files |-> todo']>>
  BY DEF Configure, ReadTask, MergedTask, Ends
<1>3. IsSequence(first)
  <2> DEFINE x == a.models.face_detector
             y == a.models.face_recognizer
  <2> HIDE DEF x, y
  <2>1. <<x, y>> \in Seq({x, y})
    OBVIOUS
  <2> QED BY <2>1, SequenceOver DEF x, y
<1> HIDE DEF first, a, t, code
<1>4. CASE main' = "done"
  BY <1>1, <1>2, <1>3, <1>4, EndKeepsPlan
<1>5. CASE main' = "ensure"
  <2>1. Planned(world, t)
    BY <1>1, <1>2, <1>5, PlanHolds DEF t, code
  <2>2. Chosen'
    BY <1>1, <1>2, <1>5, <2>1 DEF Chosen, a
  <2>3. Downloads'
    BY <1>1, <1>2, <1>3, <1>5 DEF Downloads, Fetching
  <2>4. AnalyserToCome'
    BY <1>5, AnalyserIsFirst
  <2>5. Preparing' /\ Prepared' /\ main' \in MainPlaces
    BY <1>5, <2>4 DEF Preparing, Prepared, MainPlaces
  <2> QED BY <2>2, <2>3, <2>5 DEF PlanInv
<1> QED BY <1>2, <1>4, <1>5

\* One of the files to do is done with: it is there, or it is not to be had.
LEMMA LookKeepsPlan ==
  ASSUME PlanInv, FilesStay(Main), main \in {"ensure", "download"}, todo # <<>>,
         NEW model, model = Head(todo),
         Look("ensure", Tail(todo), absent'), absent \subseteq absent',
         model \in absent' \/ There(model)', UNCHANGED procs, ~Fetching(Main)'
  PROVE  PlanInv'
<1>1. /\ main' = "ensure" /\ todo' = Tail(todo) /\ UNCHANGED <<world, app, task, needs>>
      /\ IsSequence(todo)
  BY DEF Look, PlanInv, Downloads
<1>2. IsSequence(todo') /\ \A m \in ToSet(todo) : m = Head(todo) \/ m \in ToSet(todo')
  <2>1. Tail(todo) \in Seq(ToSet(todo))
    BY <1>1 DEF IsSequence
  <2>2. IsSequence(todo')
    BY <1>1, <2>1, SequenceOver
  <2>3. ASSUME NEW i \in DOMAIN todo, i # 1
        PROVE  i - 1 \in DOMAIN todo' /\ todo'[i - 1] = todo[i]
    BY <1>1, <2>3 DEF IsSequence
  <2>4. Head(todo) = todo[1]
    BY <1>1 DEF IsSequence
  <2> QED BY <2>2, <2>3, <2>4 DEF ToSet
<1>3. Steps' = Steps /\ \A type : Need(type)' = Need(type)
  BY <1>1, SameTask
<1>4. \A need : Ready(need) => Ready(need)'
  BY ReadyStays
<1>5. \A m : There(m) => There(m)'
  BY DEF FilesStay, There
<1>6. AnalyserToCome' = AnalyserToCome
  BY <1>1 DEF AnalyserToCome
<1>7. Chosen'
  BY <1>1 DEF PlanInv, Chosen
<1>8. Downloads'
  BY <1>1, <1>2 DEF Downloads
<1>9. Preparing'
  <2> SUFFICES ASSUME ~AnalyserToCome
               PROVE  NeedsAreNeeds' /\ NeedsAheadOrMet' /\ FirstNeed'
    BY <1>6 DEF Preparing
  <2>1. NeedsAreNeeds /\ NeedsAheadOrMet /\ FirstNeed
    BY DEF PlanInv, Preparing
  <2>2. NeedsAreNeeds'
    BY <1>1, <2>1 DEF NeedsAreNeeds
  <2>3. NeedsAheadOrMet'
    BY <1>1, <1>3, <1>4, <2>1 DEF NeedsAheadOrMet
  <2>4. FirstNeed'
    <3> SUFFICES ASSUME needs # <<>>, NEW m \in ToSet(Head(needs).files)
                 PROVE  m \in ToSet(todo') \cup absent' \/ There(m)'
      BY <1>1 DEF FirstNeed
    <3>1. CASE m \in ToSet(todo)
      BY <1>2, <3>1
    <3>2. CASE m \in absent \/ There(m)
      BY <1>5, <3>2
    <3> QED BY <2>1, <3>1, <3>2 DEF FirstNeed
  <2> QED BY <2>2, <2>3, <2>4
<1>10. Prepared' /\ main' \in MainPlaces
  BY <1>1 DEF Prepared, MainPlaces
<1> QED BY <1>7, <1>8, <1>9, <1>10 DEF PlanInv

\* A step of the main thread on one of the models.
LEMMA EnsureKeepsPlan ==
  ASSUME PlanInv, FilesInv,
         (EnsureModel \/ Fetch \/ FoundAfterAll \/ Fetched) /\ UNCHANGED procs
  PROVE  PlanInv'
<1> USE ProcessingAssumption
<1>1. /\ todo # <<>> /\ main \in {"ensure", "download"} /\ listed \subseteq Model
      /\ main = "download" => Head(todo) \in listed
      /\ main = "ensure" => ~Fetching(Main)
  BY DEF EnsureModel, Fetch, FoundAfterAll, Fetched, PlanInv, Downloads, FilesInv, FileTypes
<1>2. CASE UNCHANGED fileVars /\ Look("ensure", Tail(todo), absent') /\ ~Fetching(Main)
           /\ absent \subseteq absent' /\ (Head(todo) \in absent' \/ There(Head(todo)))
  <2>1. FilesStay(Main) /\ ~Fetching(Main)'
    BY <1>2 DEF fileVars, FilesStay, FilesInv, FileTypes, Present, Fetching
  <2>2. PICK m : m = Head(todo)
    OBVIOUS
  <2>3. m \in absent' \/ There(m)'
    BY <1>2, <2>2 DEF fileVars, There, Present
  <2> QED BY <1>1, <1>2, <2>1, <2>2, <2>3, LookKeepsPlan
<1>3. CASE EnsureModel /\ main' = "ensure"
  <2>1. UNCHANGED fileVars /\ Look("ensure", Tail(todo), absent') /\ ~Fetching(Main)
        /\ absent \subseteq absent' /\ (Head(todo) \in absent' \/ There(Head(todo)))
    <3>1. CASE Head(todo) \notin listed
      BY <1>1, <1>3, <3>1 DEF EnsureModel, Look
    <3>2. CASE Head(todo) \in listed /\ Present(Head(todo))
      BY <1>1, <1>3, <3>2 DEF EnsureModel, Look, There
    <3>3. CASE Head(todo) \in listed /\ ~Present(Head(todo))
      BY <1>3, <3>3 DEF EnsureModel, Look
    <3> QED BY <3>1, <3>2, <3>3
  <2> QED BY <1>2, <2>1
<1>4. CASE FoundAfterAll
  BY <1>1, <1>2, <1>4 DEF FoundAfterAll, Look, There, Fetching
<1>5. CASE Fetched
  <2> DEFINE m == download[Main].model
  <2>1. /\ RenameModel(Main) /\ Look("ensure", Tail(todo), absent') /\ absent' = absent
        /\ main = "download"
    BY <1>5 DEF Fetched, Look
  <2>2. Fetching(Main) /\ m \in Model /\ temporary[m] # Nothing
        /\ final' = [final EXCEPT ![m] = temporary[m]]
        /\ download' = [download EXCEPT ![Main] = NoDownload] /\ listed' = listed
    BY <2>1, NothingAssumption DEF RenameModel, Complete, Fetching, FilesInv, FileTypes
  <2>3. m = Head(todo)
    BY <2>1, <2>2 DEF PlanInv, Downloads
  <2>4. PICK model : model = Head(todo)
    OBVIOUS
  <2>7. There(model)'
    BY <1>1, <2>1, <2>2, <2>3, <2>4 DEF There, Present, FilesInv, FileTypes
  <2>5. FilesStay(Main)
    BY <2>1, FilesDoStay
  <2>6. ~Fetching(Main)'
    BY <2>2 DEF Fetching, FilesInv, FileTypes
  <2> QED BY <1>1, <2>1, <2>4, <2>5, <2>6, <2>7, LookKeepsPlan
<1>6. CASE Fetch \/ (EnsureModel /\ main' = "download")
  <2>1. /\ Look("download", todo, absent) /\ Head(todo) \in listed
        /\ \/ UNCHANGED fileVars /\ main = "ensure"
           \/ main = "download" /\ (OpenTemporary(Main, Head(todo)) \/ WriteChunk(Main))
    BY <1>1, <1>6 DEF Fetch, EnsureModel, Look
  <2>2. FilesStay(Main)
    <3>1. CASE UNCHANGED fileVars
      BY <3>1 DEF fileVars, FilesStay, FilesInv, FileTypes, Present
    <3>2. CASE OpenTemporary(Main, Head(todo)) \/ WriteChunk(Main)
      BY <1>1, <2>1, <3>2, FilesDoStay
    <3> QED BY <2>1, <3>1, <3>2
  <2>3. Fetching(Main)' => download'[Main].model = Head(todo)
    <3>1. CASE main = "ensure" /\ UNCHANGED fileVars
      BY <1>1, <3>1 DEF fileVars, Fetching
    <3>2. CASE OpenTemporary(Main, Head(todo))
      BY <3>2 DEF OpenTemporary, FilesInv, FileTypes
    <3>3. CASE main = "download" /\ WriteChunk(Main)
      <4>1. download'[Main].model = download[Main].model /\ Fetching(Main)
        BY <3>3 DEF WriteChunk, Fetching, FilesInv, FileTypes
      <4> QED BY <3>3, <4>1 DEF PlanInv, Downloads
    <3> QED BY <2>1, <3>1, <3>2, <3>3
  <2>4. /\ main' = "download" /\ todo' = todo /\ absent' = absent
        /\ UNCHANGED <<world, app, task, needs>>
    BY <2>1 DEF Look
  <2>5. Chosen'
    BY <1>1, <2>4 DEF PlanInv, Chosen
  <2>6. Downloads'
    BY <1>1, <2>1, <2>2, <2>3, <2>4 DEF PlanInv, Downloads, FilesStay
  <2>7. Preparing'
    <3>1. AnalyserToCome' = AnalyserToCome
      BY <1>1, <2>4 DEF AnalyserToCome
    <3>2. Steps' = Steps /\ \A type : Need(type)' = Need(type)
      BY <2>4, SameTask
    <3>3. \A need : Ready(need) => Ready(need)'
      BY <2>2, ReadyStays
    <3>4. \A m : There(m) => There(m)'
      BY <2>2 DEF FilesStay, There
    <3>5. NeedsAreNeeds => NeedsAreNeeds'
      BY <2>4 DEF NeedsAreNeeds
    <3>6. NeedsAheadOrMet => NeedsAheadOrMet'
      BY <2>4, <3>2, <3>3 DEF NeedsAheadOrMet
    <3>7. FirstNeed => FirstNeed'
      BY <2>4, <3>4 DEF FirstNeed
    <3> QED BY <1>1, <3>1, <3>5, <3>6, <3>7 DEF PlanInv, Preparing
  <2>8. Prepared' /\ main' \in MainPlaces
    BY <2>4 DEF Prepared, MainPlaces
  <2> QED BY <2>5, <2>6, <2>7, <2>8 DEF PlanInv
<1>7. EnsureModel => main' \in {"ensure", "download"}
  BY DEF EnsureModel, Look
<1> QED BY <1>3, <1>4, <1>5, <1>6, <1>7

\* The main thread does anything else; where it ends, and how, is not looked at.
LEMMA MainKeepsPlan ==
  ASSUME PlanInv, FilesInv, MainStep
  PROVE  PlanInv'
<1>1. IsSequence(todo)
  BY DEF PlanInv, Downloads
<1>2. CASE Configure
  BY <1>2, ConfigureKeepsPlan
<1>3. CASE EnsureModel \/ Fetch \/ FoundAfterAll \/ Fetched
  <2>1. UNCHANGED procs
    BY <1>3 DEF EnsureModel, Fetch, FoundAfterAll, Fetched, Look, processorVars
  <2> QED BY <1>3, <2>1, EnsureKeepsPlan
<1>4. CASE FetchThrows
  BY <1>1, <1>4, EndKeepsPlan DEF FetchThrows, Throws, Ends
<1>5. CASE MakeAnalyser \/ LoadSource \/ SourcesLoaded \/ CheckTargets \/ JobEnds \/ TaskEnds
  <2>1. /\ main' \in MainPlaces \ {"configure", "ensure", "download", "running"}
        /\ main \notin {"configure", "done", "download"}
        /\ todo' = todo /\ UNCHANGED <<world, app, task, fileVars>>
    BY <1>5 DEF MakeAnalyser, LoadSource, SourcesLoaded, CheckTargets, JobEnds, TaskEnds, Ends,
                Throws, MainPlaces
  <2>2. Chosen' /\ Downloads'
    BY <1>1, <2>1, MainKeepsChoice
  <2> QED BY <2>1, <2>2 DEF PlanInv, Preparing, Prepared
<1>6. CASE BeginJob
  <2>1. /\ main = "jobs" /\ main' = "ensure" /\ needs' = Needs
        /\ todo' = IF Needs = <<>> THEN <<>> ELSE Head(Needs).files
        /\ UNCHANGED <<world, app, task, fileVars>>
    BY <1>6 DEF BeginJob
  <2>2. Planned(world, task)
    BY <2>1 DEF PlanInv, Chosen
  <2>3. IsSequence(Steps)
    BY <2>2, StepsHold
  <2>4. \A i \in DOMAIN Steps : Steps[i].type \in StepTypes
    BY <2>2, StepsHold DEF Planned
  <2>5. /\ IsSequence(Needs)
        /\ \A n \in ToSet(Needs) : \E i \in DOMAIN Steps : n = Need(Steps[i].type)
        /\ \A i \in DOMAIN Steps : Need(Steps[i].type) \in ToSet(Needs)
    BY <2>3, NeedsHold
  <2>6. \A n \in ToSet(Needs) : n.type # "analyser" /\ IsSequence(n.files)
    BY <2>4, <2>5, NeedHolds DEF StepTypes
  <2>7. Needs # <<>> => Head(Needs) \in ToSet(Needs)
    BY <2>5 DEF IsSequence
  <2>8. IsSequence(todo')
    <3>1. IsSequence(<<>>)
      BY DEF IsSequence
    <3> QED BY <2>1, <2>6, <2>7, <3>1
  <2>9. Chosen' /\ Downloads' /\ main' \in MainPlaces
    BY <2>1, <2>8, MainKeepsChoice DEF MainPlaces
  <2>10. NeedsAreNeeds' /\ FirstNeed'
    BY <2>1, <2>5, <2>6 DEF NeedsAreNeeds, FirstNeed
  <2>11. NeedsAheadOrMet'
    <3>1. Steps' = Steps /\ \A type : Need(type)' = Need(type)
      BY <2>1, SameTask
    <3> QED BY <2>1, <2>5, <3>1 DEF NeedsAheadOrMet
  <2> QED BY <2>1, <2>9, <2>10, <2>11 DEF PlanInv, Preparing, Prepared
<1>7. CASE ServiceReady
  <2>1. /\ main = "ensure" /\ todo = <<>> /\ needs # <<>> /\ Head(needs).type # "analyser"
        /\ UNCHANGED <<world, app, task, fileVars, absent>>
        /\ \/ main' = "done" /\ todo' = todo
           \/ /\ main' = "ensure" /\ needs' = Tail(needs)
              /\ todo' = IF Len(needs) = 1 THEN <<>> ELSE needs[2].files
              /\ ToSet(Head(needs).files) \cap absent = {}
    BY <1>7 DEF ServiceReady, Ends, Throws
  <2>2. CASE main' = "done"
    BY <1>1, <2>1, <2>2, EndKeepsPlan
  <2>3. CASE main' = "ensure"
    <3>1. ~AnalyserToCome
      BY <2>1 DEF AnalyserToCome
    <3>2. NeedsAreNeeds /\ NeedsAheadOrMet /\ FirstNeed
      BY <2>1, <3>1 DEF PlanInv, Preparing
    <3>3. /\ IsSequence(needs) /\ Head(needs) = needs[1]
          /\ IsSequence(needs') /\ ToSet(needs') \subseteq ToSet(needs)
          /\ \A n \in ToSet(needs) : n = Head(needs) \/ n \in ToSet(needs')
          /\ needs' # <<>> => Len(needs) # 1 /\ needs[2] = Head(needs') /\ needs[2] \in ToSet(needs)
          /\ needs' = <<>> => Len(needs) = 1
      <4>1. IsSequence(needs) /\ Head(needs) = needs[1]
        BY <2>1, <3>2 DEF NeedsAreNeeds, IsSequence
      <4>2. needs' \in Seq(ToSet(needs)) /\ Len(needs') = Len(needs) - 1
        BY <2>1, <2>3, <4>1 DEF IsSequence
      <4>3. IsSequence(needs') /\ ToSet(needs') \subseteq ToSet(needs)
        BY <4>2, SequenceOver
      <4>4. \A i \in DOMAIN needs : i # 1 => i - 1 \in DOMAIN needs' /\ needs'[i - 1] = needs[i]
        BY <2>1, <2>3, <4>1 DEF IsSequence
      <4>5. \A n \in ToSet(needs) : n = Head(needs) \/ n \in ToSet(needs')
        BY <4>1, <4>4 DEF ToSet
      <4>6. needs' # <<>> => Len(needs) # 1 /\ needs[2] = Head(needs') /\ needs[2] \in ToSet(needs)
        BY <2>1, <2>3, <4>1, <4>2 DEF IsSequence
      <4>7. needs' = <<>> => Len(needs) = 1
        BY <4>1, <4>2, <2>1 DEF IsSequence
      <4> QED BY <4>1, <4>3, <4>5, <4>6, <4>7
    <3>4. IsSequence(todo')
      <4>1. IsSequence(<<>>)
        BY DEF IsSequence
      <4> QED BY <2>1, <2>3, <3>2, <3>3, <4>1 DEF NeedsAreNeeds
    <3>5. Chosen' /\ Downloads' /\ main' \in MainPlaces
      BY <2>1, <2>3, <3>4, MainKeepsChoice DEF MainPlaces
    <3>6. Ready(Head(needs))
      <4>1. ToSet(todo) = {}
        BY <2>1 DEF ToSet
      <4> QED BY <2>1, <2>3, <3>2, <4>1 DEF FirstNeed, Ready
    <3>7. Steps' = Steps /\ (\A type : Need(type)' = Need(type))
          /\ \A need : Ready(need)' = Ready(need)
      <4>1. \A m : There(m)' = There(m)
        BY <2>1 DEF fileVars, There, Present
      <4>2. \A need : Ready(need)' = Ready(need)
        BY <4>1 DEF Ready
      <4> QED BY <2>1, <4>2, SameTask
    <3>8. NeedsAreNeeds'
      BY <3>2, <3>3 DEF NeedsAreNeeds
    <3>9. NeedsAheadOrMet'
      BY <3>2, <3>3, <3>6, <3>7 DEF NeedsAheadOrMet
    <3>10. FirstNeed'
      BY <2>1, <2>3, <3>3 DEF FirstNeed
    <3> QED BY <2>3, <3>5, <3>8, <3>9, <3>10 DEF PlanInv, Preparing, Prepared
  <2> QED BY <2>1, <2>2, <2>3
<1>8. CASE StartPipeline
  <2>1. /\ main = "ensure" /\ main' = "running" /\ needs = <<>> /\ procs' = Adapters
        /\ UNCHANGED <<world, app, task, fileVars, todo>>
    BY <1>8 DEF StartPipeline, NewPipeline
  <2>2. Chosen' /\ Downloads' /\ main' \in MainPlaces
    BY <1>1, <2>1, MainKeepsChoice DEF MainPlaces
  <2>3. ~AnalyserToCome /\ ToSet(needs) = {}
    BY <2>1 DEF AnalyserToCome, ToSet
  <2>4. \A i \in DOMAIN Steps : Ready(Need(Steps[i].type))
    BY <2>1, <2>3 DEF PlanInv, Preparing, NeedsAheadOrMet
  <2>5. Steps' = Steps /\ Adapters' = Adapters /\ (\A type : Need(type)' = Need(type))
        /\ \A need : Ready(need)' = Ready(need)
    <3>1. \A m : There(m)' = There(m)
      BY <2>1 DEF fileVars, There, Present
    <3>2. \A need : Ready(need)' = Ready(need)
      BY <3>1 DEF Ready
    <3> QED BY <2>1, <3>2, SameTask
  <2>6. Prepared'
    BY <2>1, <2>4, <2>5 DEF Prepared
  <2> QED BY <2>1, <2>2, <2>6 DEF PlanInv, Preparing
<1> QED BY <1>2, <1>3, <1>4, <1>5, <1>6, <1>7, <1>8 DEF MainStep

\* Whatever happens.
LEMMA NextKeepsPlan == PlanInv /\ FilesInv /\ [Next]_vars => PlanInv'
<1> SUFFICES ASSUME PlanInv, FilesInv, [Next]_vars
             PROVE  PlanInv'
  OBVIOUS
<1> USE ProcessingAssumption
<1>1. CASE UNCHANGED vars
  <2>1. UNCHANGED fileVars /\ UNCHANGED <<mainVars, procs>>
    BY <1>1 DEF vars, processorVars
  <2> QED BY <2>1, NoFileStays, OtherKeepsPlan
<1>2. CASE MainStep
  BY <1>2, MainKeepsPlan
<1>3. CASE Workers
  <2>1. PICK w \in Worker : main = "running" /\ WorkerStep(w) /\ UNCHANGED <<mainVars, wanted>>
    BY <1>3 DEF Workers
  <2>2. UNCHANGED fileVars
    BY <2>1 DEF WorkerStep
  <2>3. procs' = procs
    <3>1. Analyse(w) /\ UNCHANGED processorVars => procs' = procs
      BY DEF processorVars
    <3> QED BY <2>1, <3>1 DEF WorkerStep, TakeFrame, Prepare, LeaveFrame, TestLoaded, LockAndTest,
                              LoadModel, LoadThrows, ApplyStep, StepFails, StepThrows, NextStep,
                              Moves
  <2> QED BY <2>1, <2>2, <2>3, NoFileStays, OtherKeepsPlan
<1>4. CASE Other
  <2>1. UNCHANGED <<mainVars, procs>>
    BY <1>4 DEF Other, processorVars
  <2>2. FilesStay(Rival)
    <3>1. CASE \E m \in wanted : ~Present(m) /\ OpenTemporary(Rival, m)
      <4>1. PICK m \in wanted : OpenTemporary(Rival, m)
        BY <3>1
      <4>2. m \in Model
        BY <4>1 DEF OpenTemporary, FilesInv, FileTypes
      <4> QED BY <4>1, <4>2, FilesDoStay
    <3>2. CASE WriteChunk(Rival) \/ RenameModel(Rival) \/ RenameFails(Rival)
                 \/ DownloadFails(Rival) \/ DownloaderDies(Rival)
      BY <3>2, FilesDoStay
    <3> QED BY <1>4, <3>1, <3>2 DEF Other
  <2> QED BY <2>1, <2>2, OtherKeepsPlan
<1> QED BY <1>1, <1>2, <1>3, <1>4 DEF Next

\* The program starts with nothing planned.
LEMMA PlanStart == Init => PlanInv
<1> SUFFICES ASSUME Init
             PROVE  PlanInv
  OBVIOUS
<1>1. /\ world \in Worlds /\ main = "configure" /\ todo = <<>>
      /\ download = [p \in Process |-> NoDownload]
  BY DEF Init, FilesInit
<1>2. IsSequence(todo)
  BY <1>1 DEF IsSequence
<1>3. ~Fetching(Main)
  BY <1>1, ProcessingAssumption DEF Fetching
<1> QED BY <1>1, <1>2, <1>3 DEF PlanInv, MainPlaces, Chosen, Downloads, Preparing, Prepared

\* What the plan comes to once a pipeline runs.
LEMMA PlanIsReady == PlanInv /\ FilesInv => StartedMeansReady
<1> SUFFICES ASSUME PlanInv, FilesInv, main = "running"
             PROVE  StartedMeansReady
  BY DEF StartedMeansReady
<1>1. Planned(world, task) /\ app = AppConfig(world.app)
  BY DEF PlanInv, Chosen
<1>2. procs = Adapters /\ \A i \in DOMAIN Steps : Ready(Need(Steps[i].type))
  BY DEF PlanInv, Prepared
<1>3. /\ IsSequence(Steps)
      /\ \A i \in DOMAIN Steps :
           \E n \in DOMAIN task.pipeline : Steps[i] = task.pipeline[n] /\ task.pipeline[n].exact
  BY <1>1, StepsHold
<1>4. ASSUME NEW k \in DOMAIN procs
      PROVE  LET need == Need(Steps[k].type)
             IN /\ k \in DOMAIN Steps /\ need.type = Steps[k].type
                /\ procs[k].type = need.type /\ procs[k].model = need.model
                /\ procs[k].files = ToSet(need.files)
  <2>1. k \in DOMAIN Steps
    BY <1>2 DEF Adapters
  <2> DEFINE need == Need(Steps[k].type)
  <2>2. procs[k] = [type |-> need.type, model |-> need.model, files |-> ToSet(need.files)]
    BY <1>2, <2>1 DEF Adapters
  <2>3. need.type = Steps[k].type
    BY NeedHolds
  <2> HIDE DEF need
  <2>4. procs[k].type = need.type /\ procs[k].model = need.model
        /\ procs[k].files = ToSet(need.files)
    BY <2>2
  <2> QED BY <2>1, <2>3, <2>4 DEF need
<1>5. DOMAIN procs = DOMAIN Steps
  BY <1>2 DEF Adapters
<1>6. [k \in DOMAIN procs |-> procs[k].type] = [k \in DOMAIN Steps |-> Steps[k].type]
  BY <1>4, <1>5
<1>7. \A k \in DOMAIN procs : procs[k].files \subseteq {m \in listed : Present(m)}
  BY <1>2, <1>4 DEF Ready, There
<1>8. ASSUME NEW k \in DOMAIN procs, Steps[k].params.kind = procs[k].type, Agreed(procs[k].type)
      PROVE  LET p == Steps[k].params
             IN \/ procs[k].model = p.model
                \/ p.model = "" /\ app.models[p.kind] = ""
  <2> DEFINE type == Steps[k].type
             s == FirstStep(type)
  <2>1. procs[k].type = type /\ procs[k].model = Need(type).model /\ k \in DOMAIN Steps
    BY <1>4
  <2>2. PICK n \in DOMAIN Steps : Steps[n].type = type /\ s = Steps[n]
    BY <1>3, <2>1, FirstHolds
  <2>3. PICK j \in DOMAIN task.pipeline : s = task.pipeline[j] /\ task.pipeline[j].exact
    BY <1>3, <2>2
  <2>4. /\ s.type = type /\ s.exact /\ s.params.kind = type
        /\ Steps[k].params.kind = type /\ Steps[k].params.model = s.params.model
    <3>1. Steps[k].params.kind = type
      BY <1>8, <2>1
    <3>2. Steps[k].type = type /\ Steps[n].type = type /\ k \in DOMAIN Steps
      BY <2>1, <2>2
    <3> HIDE DEF type, s
    <3>3. /\ Steps[k].params.kind = Steps[n].params.kind
          /\ Steps[k].params.model = Steps[n].params.model
      BY <1>8, <2>1, <3>2 DEF Agreed
    <3> QED BY <2>2, <2>3, <3>1, <3>3
  <2>5. CASE s.params.model = ""
    <3> DEFINE r == task.pipeline[j]
    <3>1. r.exact /\ r.params.kind = r.type /\ r.params.model = "" =>
            AppConfig(world.app).models[r.type] = ""
      BY <1>1, <2>3 DEF Planned
    <3>2. s = r
      BY <2>3
    <3> HIDE DEF r, s, type
    <3>3. app.models[type] = ""
      BY <1>1, <2>4, <2>5, <3>1, <3>2
    <3> QED BY <2>1, <2>4, <2>5, <3>3 DEF s, type
  <2>6. CASE s.params.model # ""
    <3>1. Need(type).model = s.params.model
      BY <2>4, <2>6 DEF Need
    <3> QED BY <2>1, <2>4, <3>1
  <2> QED BY <2>5, <2>6
<1>9. /\ task.settings.score_threshold \in 1..100 /\ task.settings.video_quality \in 1..100
      /\ EffectiveThreads(task.settings.thread_count) > 0 /\ task.settings.max_queue_size # 0
      /\ ~world.quick =>
           LET said == Understood(world.command.settings)
           IN \A f \in DOMAIN said : said[f] # Unset[f] => task.settings[f] = said[f]
      /\ ToSet(task.sources) \cup ToSet(task.targets)
           \subseteq Existing \cup {none \in {""} : world.quick}
  BY <1>1 DEF Planned
<1>10. \A k \in DOMAIN procs :
         LET p == Steps[k].params
         IN p.kind = procs[k].type /\ Agreed(procs[k].type) =>
              \/ procs[k].model = p.model
              \/ p.model = "" /\ app.models[p.kind] = ""
  BY <1>8
<1> QED BY <1>6, <1>7, <1>9, <1>10 DEF StartedMeansReady

\* Once frames are processed the task is one that has passed the validation, with
\* the settings it asks for, and every step that is on has its adapter with all files
\* of the adapter's model in place; where the steps of a type agree on the model it is
\* the one they name -- for any documents, whatever else downloads into the same
\* directory (run_pipeline, MergeConfigs, validate_task_config, AddProcessorsToPipeline).
THEOREM StartIsReady == Spec => []StartedMeansReady
BY FilesBegin, PlanStart, NextKeepsFiles, NextKeepsPlan, PlanIsReady, PTL DEF Spec

-----------------------------------------------------------------------------
(* The face store *)

\* The selector lets all faces through that a detector finds.
LEMMA DetectedHolds ==
  ASSUME NEW p \in Picture
  PROVE  /\ Selected(Detected(p)) = Detected(p)
         /\ Detected(p) # <<>> => detector /\ Detected(p) = FacesOf[p]
         /\ detector => Detected(p) = FacesOf[p]
BY SelectorAssumption DEF Detected

\* An entry found in the store holds the faces of its picture.
LEMMA EntryHolds ==
  ASSUME NEW s \in Seq(Entries), NEW p \in Picture, Has(s, p)
  PROVE  /\ Place(s, p) \in 1..Len(s)
         /\ Entry(s, p) \in Entries /\ Entry(s, p).faces = FacesOf[p]
<1>1. Place(s, p) \in DOMAIN s /\ s[Place(s, p)].key = p
  BY DEF Has, Place
<1>2. \A e \in Entries : e.faces = FacesOf[e.key]
  BY DEF Entries
<1>3. s[Place(s, p)] \in Entries
  BY <1>1
<1> QED BY <1>1, <1>2, <1>3 DEF Entry

\* Taking a picture out of the store leaves entries of others.
LEMMA OthersHold ==
  ASSUME NEW s \in Seq(Entries), NEW p \in Picture, Has(s, p)
  PROVE  Others(s, p) \in Seq(Entries)
<1> DEFINE i == Place(s, p)
<1>1. i \in 1..Len(s)
  BY EntryHolds
<1> HIDE DEF i
<1>2. SubSeq(s, 1, i - 1) \in Seq(Entries) /\ SubSeq(s, i + 1, Len(s)) \in Seq(Entries)
  BY <1>1
<1>3. SubSeq(s, 1, i - 1) \o SubSeq(s, i + 1, Len(s)) \in Seq(Entries)
  BY <1>2
<1> QED BY <1>3 DEF Others, RemoveAt, i

\* A call that reads an entry leaves entries, and of an empty store an empty one.
LEMMA TouchedHolds ==
  ASSUME NEW s \in Seq(Entries), NEW p \in Picture
  PROVE  Touched(s, p) \in Seq(Entries) /\ (s = <<>> => Touched(s, p) = <<>>)
<1>1. CASE Has(s, p)
  <2>1. Entry(s, p) \in Entries /\ Others(s, p) \in Seq(Entries) /\ s # <<>>
    BY <1>1, EntryHolds, OthersHold DEF Has
  <2>2. Touched(s, p) = <<Entry(s, p)>> \o Others(s, p)
    BY <1>1 DEF Touched
  <2> QED BY <2>1, <2>2
<1>2. CASE ~Has(s, p)
  BY <1>2 DEF Touched
<1> QED BY <1>1, <1>2

\* So does making room.
LEMMA EvictedHolds ==
  ASSUME NEW s \in Seq(Entries)
  PROVE  Evicted(s) \in Seq(Entries)
<1> DEFINE a == Len(s)
           b == Capacity - 1
           n == Min({a, b})
<1>1. a \in Nat /\ b \in Nat
  BY FaceAssumption
<1> HIDE DEF b
<1>2. \E x \in {a, b} : \A y \in {a, b} : x <= y
  <2>1. CASE a <= b
    BY <1>1, <2>1
  <2>2. CASE ~(a <= b)
    BY <1>1, <2>2
  <2> QED BY <2>1, <2>2
<1>3. n \in {a, b} /\ \A y \in {a, b} : n <= y
  BY <1>2 DEF Min
<1> HIDE DEF n
<1>4. n \in 0..Len(s)
  BY <1>1, <1>3
<1>5. SubSeq(s, 1, n) \in Seq(Entries)
  BY <1>4
<1> QED BY <1>5 DEF Evicted, n, b

\* Found faces go into the store if there are any.
LEMMA InsertedHolds ==
  ASSUME NEW s \in Seq(Entries), NEW p \in Picture
  PROVE  /\ Inserted(s, p, Detected(p)) \in Seq(Entries)
         /\ ~detector => Inserted(s, p, Detected(p)) = s
<1>1. CASE Detected(p) = <<>>
  BY <1>1 DEF Inserted
<1>2. CASE Detected(p) # <<>>
  <2> DEFINE e == [key |-> p, faces |-> Detected(p)]
             rest == IF Has(s, p) THEN Others(s, p) ELSE Evicted(s)
  <2>1. detector /\ e \in Entries
    BY <1>2, DetectedHolds DEF Entries
  <2>2. rest \in Seq(Entries)
    BY OthersHold, EvictedHolds
  <2>3. Inserted(s, p, Detected(p)) = <<e>> \o rest
    BY <1>2 DEF Inserted
  <2> HIDE DEF e, rest
  <2> QED BY <2>1, <2>2, <2>3
<1> QED BY <1>1, <1>2

-----------------------------------------------------------------------------
(* What the adapters do to a frame *)

Works(faces) == {[type |-> t, faces |-> f] :
                   t \in {"frame_enhancer", "face_swapper", "face_enhancer"}, f \in {<<>>, faces}}

\* The parts are sequences of works.
LEMMA PartsHold ==
  ASSUME NEW faces, NEW n \in Nat
  PROVE  Parts(n, faces) \in Seq(Seq(Works(faces))) /\ Len(Parts(n, faces)) = n
<1>1. ASSUME NEW k \in 1..n
      PROVE  Work(k, faces) \in Seq(Works(faces))
  <2>1. CASE procs[k].type = "frame_enhancer"
    <3> DEFINE x == [type |-> "frame_enhancer", faces |-> <<>>]
    <3>1. x \in Works(faces) /\ Work(k, faces) = <<x>>
      BY <2>1 DEF Works, Work
    <3> HIDE DEF x
    <3> QED BY <3>1
  <2>2. CASE procs[k].type \in {"face_swapper", "face_enhancer"} /\ faces # <<>>
    <3> DEFINE x == [type |-> procs[k].type, faces |-> faces]
    <3>1. x \in Works(faces) /\ Work(k, faces) = <<x>>
      BY <2>2 DEF Works, Work
    <3> HIDE DEF x
    <3> QED BY <3>1
  <2>3. CASE /\ procs[k].type # "frame_enhancer"
             /\ ~(procs[k].type \in {"face_swapper", "face_enhancer"} /\ faces # <<>>)
    <3>1. Work(k, faces) = <<>>
      BY <2>3 DEF Work
    <3> QED BY <3>1
  <2> QED BY <2>1, <2>2, <2>3
<1> HIDE DEF Works
<1>2. Parts(n, faces) = [k \in 1..n |-> Work(k, faces)]
  BY DEF Parts
<1> QED BY <1>1, <1>2

\* Nothing before the first adapter, and each adds its work.
LEMMA WorkHolds ==
  ASSUME NEW faces
  PROVE  /\ FlattenSeq(Parts(0, faces)) = <<>>
         /\ \A n \in Nat : /\ FlattenSeq(Parts(n, faces)) \in Seq(Works(faces))
                           /\ FlattenSeq(Parts(n + 1, faces)) =
                                FlattenSeq(Parts(n, faces)) \o Work(n + 1, faces)
<1>1. FlattenSeq(Parts(0, faces)) = <<>>
  <2>1. Parts(0, faces) = <<>>
    BY PartsHold
  <2> QED BY <2>1 DEF FlattenSeq
<1>2. ASSUME NEW n \in Nat
      PROVE  /\ FlattenSeq(Parts(n, faces)) \in Seq(Works(faces))
             /\ FlattenSeq(Parts(n + 1, faces)) = FlattenSeq(Parts(n, faces)) \o Work(n + 1, faces)
  <2> DEFINE s == Parts(n + 1, faces)
             t == Parts(n, faces)
  <2>1. n + 1 \in Nat
    OBVIOUS
  <2>2. s \in Seq(Seq(Works(faces))) /\ Len(s) = n + 1 /\ t \in Seq(Seq(Works(faces))) /\ Len(t) = n
    BY <2>1, PartsHold
  <2>3. (\A i \in 1..n : t[i] = s[i]) /\ s[n + 1] = Work(n + 1, faces)
    BY DEF Parts
  <2> HIDE DEF s, t
  <2>4. FlattenSeq(s) = FlattenSeq(t) \o s[n + 1]
    BY <2>2, <2>3, FlattenGrows
  <2>5. FlattenSeq(t) \in Seq(Works(faces))
    BY <2>2, FlattenHolds
  <2> QED BY <2>3, <2>4, <2>5 DEF s, t
<1> QED BY <1>1, <1>2

\* The treatment is what all adapters together do.
LEMMA TreatmentHolds ==
  ASSUME IsSequence(procs), NEW faces
  PROVE  Treatment(StepTypes \ {"expression_restorer"}, faces) = FlattenSeq(Parts(Len(procs), faces))
<1> DEFINE types == StepTypes \ {"expression_restorer"}
           Due(k) == IF procs[k].type \in types /\ (procs[k].type \in FaceTypes => faces # <<>>)
                       THEN <<[type |-> procs[k].type,
                               faces |-> IF procs[k].type \in FaceTypes THEN faces ELSE <<>>]>>
                       ELSE <<>>
<1>1. DOMAIN procs = 1..Len(procs)
  BY DEF IsSequence
<1>2. ASSUME NEW k \in DOMAIN procs PROVE Due(k) = Work(k, faces)
  <2>1. CASE procs[k].type = "frame_enhancer"
    BY <2>1 DEF Work, StepTypes, FaceTypes
  <2>2. CASE procs[k].type \in {"face_swapper", "face_enhancer"}
    BY <2>2 DEF Work, StepTypes, FaceTypes
  <2>3. CASE procs[k].type \notin {"frame_enhancer", "face_swapper", "face_enhancer"}
    BY <2>3 DEF Work, StepTypes
  <2> QED BY <2>1, <2>2, <2>3
<1>3. Treatment(types, faces) = FlattenSeq([k \in DOMAIN procs |-> Due(k)])
  BY DEF Treatment
<1> HIDE DEF Due, types
<1>4. [k \in DOMAIN procs |-> Due(k)] = Parts(Len(procs), faces)
  BY <1>1, <1>2 DEF Parts
<1> QED BY <1>3, <1>4 DEF types

\* The account begins empty ...
LEMMA NothingEntered ==
  ASSUME NEW faces
  PROVE  <<>> \in Seq(Entered(faces)) /\ WentThrough(<<>>) = <<>>
<1>1. DOMAIN WentThrough(<<>>) = 1..0
  BY DEF WentThrough
<1>2. WentThrough(<<>>) = [n \in 1..0 |-> <<>>[n]]
  BY DEF WentThrough
<1> QED BY <1>1, <1>2

\* ... and grows by one entry at a time.
LEMMA AccountGrows ==
  ASSUME NEW faces, NEW done \in Seq(Entered(faces)), NEW e \in Entered(faces)
  PROVE  /\ Append(done, e) \in Seq(Entered(faces))
         /\ WentThrough(Append(done, e)) =
              WentThrough(done) \o <<[type |-> e.type, faces |-> e.faces]>>
<1> DEFINE x == [type |-> e.type, faces |-> e.faces]
           Bare(d) == [type |-> d.type, faces |-> d.faces]
           S == {Bare(d) : d \in Entered(faces)}
           s == Append(done, e)
           n == Len(done)
<1>1. x = Bare(e) /\ \A d \in Entered(faces) : Bare(d) \in S
  OBVIOUS
<1>2. /\ n \in Nat /\ DOMAIN done = 1..n /\ s \in Seq(Entered(faces)) /\ Len(s) = n + 1
      /\ DOMAIN s = 1..(n + 1) /\ s[n + 1] = e /\ \A i \in 1..n : s[i] = done[i]
      /\ \A i \in 1..n : done[i] \in Entered(faces)
  OBVIOUS
<1>3. /\ WentThrough(done) = [i \in 1..n |-> Bare(done[i])]
      /\ WentThrough(s) = [i \in 1..(n + 1) |-> Bare(s[i])]
  BY <1>2 DEF WentThrough
<1> HIDE DEF Bare, S, s, n, x
<1>4. WentThrough(done) \in Seq(S) /\ Len(WentThrough(done)) = n
  BY <1>1, <1>2, <1>3
<1>5. x \in S
  BY <1>1
<1> DEFINE t == WentThrough(done) \o <<x>>
<1>6. /\ t \in Seq(S) /\ Len(t) = n + 1 /\ DOMAIN t = 1..(n + 1)
      /\ t[n + 1] = x /\ \A i \in 1..n : t[i] = WentThrough(done)[i]
  BY <1>2, <1>4, <1>5
<1> HIDE DEF t
<1>7. \A i \in 1..(n + 1) : i = n + 1 \/ i \in 1..n
  BY <1>2
<1>8. \A i \in 1..(n + 1) : t[i] = Bare(s[i])
  BY <1>1, <1>2, <1>3, <1>6, <1>7
<1>9. t = [i \in 1..(n + 1) |-> Bare(s[i])]
  <2>1. t = [i \in 1..(n + 1) |-> t[i]]
    BY <1>6
  <2> QED BY <2>1, <1>8
<1> QED BY <1>2, <1>3, <1>9 DEF t, s, x

-----------------------------------------------------------------------------
(* The faces of the frames *)

\* A frame a worker has is one of the job's.
LEMMA PictureHolds ==
  ASSUME WorkersInv, FacesInv, NEW w \in Worker, at[w] # "idle"
  PROVE  picture[w] \in Picture /\ picture[w] = job[frame[w]]
<1>1. picture[w] = job[frame[w]] /\ frame[w] \in DOMAIN job
  BY DEF WorkersInv, InWork, FacesInv, FrameInv
<1>2. job \in Seq(Picture)
  BY DEF FacesInv, Pictures
<1> QED BY <1>1, <1>2

\* What is said of a worker as long as it, its frame and the pipeline stay.
LEMMA WorkerStays ==
  ASSUME NEW v \in Worker, FrameInv(v), UNCHANGED <<detector, procs, job>>,
         at'[v] = at[v], picture'[v] = picture[v], frame'[v] = frame[v], step'[v] = step[v],
         found'[v] = found[v], given'[v] = given[v], applied'[v] = applied[v],
         noted'[v] = noted[v], v \in missed <=> v \in missed'
  PROVE  FrameInv(v)'
<1>1. \A faces, n : Parts(n, faces)' = Parts(n, faces)
  BY DEF Parts, Work
<1>2. Needed' = Needed /\ \A p : Detected(p)' = Detected(p)
  BY DEF Needed, Types, Detected
<1>3. Account(v)' <=> Account(v)
  BY <1>1, <1>2 DEF Account
<1> QED BY <1>2, <1>3 DEF FrameInv

\* What left with the right faces has left with the right faces.
LEMMA LeftStays ==
  ASSUME EveryFaceTreated, UNCHANGED <<left, detector, procs, job>>
  PROVE  EveryFaceTreated'
<1>1. \A types, faces : Treatment(types, faces)' = Treatment(types, faces)
  BY DEF Treatment
<1>2. Needed' = Needed /\ \A p : Detected(p)' = Detected(p)
  BY DEF Needed, Types, Detected
<1> QED BY <1>1, <1>2 DEF EveryFaceTreated

-----------------------------------------------------------------------------
(* A worker analyses its picture *)

\* A worker asks the store, detects and asks again: it ends with the faces of its
\* own picture, or with none after an entry went in between.
LEMMA AnalysisKeepsFaces ==
  ASSUME WorkersInv, FacesInv, NEW w \in Worker, Analyse(w), main = "running",
         UNCHANGED <<processorVars, mainVars>>
  PROVE  FacesInv'
<1> DEFINE p == picture[w]
<1>1. at[w] \in AnalysisPlaces
  BY DEF Analyse, AskStore, ReadStore, DetectFaces, AskAgain, ReadAgain, InsertFaces, AnalysisPlaces
<1>2. p \in Picture
  BY <1>1, PictureHolds DEF AnalysisPlaces
<1>3. /\ UNCHANGED <<detector, picture, procs, job, left, frame, step, given, applied, noted, main,
                     jobs, unseen, needs>>
      /\ at = [v \in Worker |-> at[v]]
      /\ OfWorkers(found) /\ missed \subseteq Worker
      /\ store \in Seq(Entries) /\ (store # <<>> => detector)
  BY DEF Analyse, AskStore, ReadStore, DetectFaces, AskAgain, ReadAgain, InsertFaces,
         processorVars, mainVars, sourceVars, WorkersInv, WorkerTypes, FacesInv, FrameTypes,
         StoreInv
<1>4. /\ \A v \in Worker : v # w =>
           at'[v] = at[v] /\ found'[v] = found[v] /\ (v \in missed <=> v \in missed')
      /\ OfWorkers(found)' /\ missed' \subseteq Worker
  BY <1>3 DEF Analyse, AskStore, ReadStore, DetectFaces, AskAgain, ReadAgain, InsertFaces, Go,
              Finds, OfWorkers
<1>5. /\ store' \in {store, Touched(store, p), Inserted(store, p, found[w])}
      /\ store' = Inserted(store, p, found[w]) =>
           store' = store \/ at[w] = "insert" \/ store' = Touched(store, p)
  BY DEF Analyse, AskStore, ReadStore, DetectFaces, AskAgain, ReadAgain, InsertFaces
<1>6. at[w] \in {"askAgain", "readAgain", "insert"} => found[w] = Detected(p)
  BY DEF FacesInv, FrameInv
<1>7. StoreInv'
  <2>1. store' \in Seq(Entries) /\ (store' # <<>> => detector)
    BY <1>2, <1>3, <1>5, <1>6, TouchedHolds, InsertedHolds
  <2>2. ~AnalyserToCome'
    BY <1>3 DEF AnalyserToCome
  <2> QED BY <1>3, <2>1, <2>2 DEF StoreInv
<1>8. Pictures'
  BY <1>3 DEF FacesInv, Pictures, AnalyserToCome
<1>9. FrameTypes'
  BY <1>3, <1>4 DEF FacesInv, FrameTypes, OfWorkers
<1>10. Selected(Detected(p)) = Detected(p) /\ (detector => Detected(p) = FacesOf[p])
  BY <1>2, DetectedHolds
<1>11. FrameInv(w)'
  <2>1. /\ given[w] = {} /\ applied[w] = <<>> /\ noted[w] = {} /\ p = job[frame[w]]
        /\ Needed # {} /\ step[w] = 1
    BY <1>1 DEF FacesInv, FrameInv, AnalysisPlaces
  <2>2. Needed' = Needed /\ \A q : Detected(q)' = Detected(q)
    BY <1>3 DEF Needed, Types, Detected
  <2>3. /\ at'[w] \in AnalysisPlaces
        /\ at'[w] \in {"askAgain", "readAgain", "insert"} => found'[w] = Detected(p)
        /\ at'[w] = "prepare" => w \in missed' \/ found'[w] = Detected(p)
    <3>1. CASE AskStore(w)
      BY <1>3, <3>1 DEF AskStore, Go, AnalysisPlaces
    <3>2. CASE ReadStore(w)
      <4>1. at'[w] = "prepare"
        BY <1>3, <3>2 DEF ReadStore, Go
      <4>2. CASE Has(store, p)
        <5>1. found'[w] = Entry(store, p).faces
          BY <1>3, <3>2, <4>2 DEF ReadStore, Finds, OfWorkers
        <5>2. store # <<>>
          BY <4>2 DEF Has
        <5> QED BY <1>2, <1>3, <1>10, <4>1, <4>2, <5>1, <5>2, EntryHolds DEF AnalysisPlaces
      <4>3. CASE ~Has(store, p)
        BY <3>2, <4>1, <4>3 DEF ReadStore, AnalysisPlaces
      <4> QED BY <4>2, <4>3
    <3>3. CASE DetectFaces(w)
      BY <1>3, <3>3 DEF DetectFaces, Go, Finds, OfWorkers, AnalysisPlaces
    <3>4. CASE AskAgain(w)
      BY <1>3, <1>6, <3>4 DEF AskAgain, Go, AnalysisPlaces
    <3>5. CASE ReadAgain(w)
      BY <1>3, <1>6, <3>5 DEF ReadAgain, Go, AnalysisPlaces
    <3>6. CASE InsertFaces(w)
      BY <1>3, <1>6, <1>10, <3>6 DEF InsertFaces, Go, Finds, OfWorkers, AnalysisPlaces
    <3> QED BY <3>1, <3>2, <3>3, <3>4, <3>5, <3>6 DEF Analyse
  <2>4. at'[w] \notin AdapterPlaces
    BY <2>3 DEF AnalysisPlaces, AdapterPlaces
  <2> QED BY <1>3, <2>1, <2>2, <2>3, <2>4 DEF FrameInv
<1>12. \A v \in Worker : FrameInv(v)'
  BY <1>3, <1>4, <1>11, WorkerStays DEF FacesInv
<1>13. EveryFaceTreated'
  BY <1>3, LeftStays DEF FacesInv
<1> QED BY <1>7, <1>8, <1>9, <1>12, <1>13 DEF FacesInv

\* What depends on the pipeline and the detector only.
LEMMA SamePipeline ==
  ASSUME UNCHANGED <<detector, procs>>
  PROVE  /\ Needed' = Needed
         /\ \A p : Detected(p)' = Detected(p)
         /\ \A faces, n : Parts(n, faces)' = Parts(n, faces)
         /\ \A types, faces : Treatment(types, faces)' = Treatment(types, faces)
BY DEF Needed, Types, Detected, Parts, Work, Treatment

\* A step of one worker that is not about the store.
LEMMA StepKeepsFaces ==
  ASSUME WorkersInv, FacesInv, NEW w \in Worker, main = "running",
         UNCHANGED <<mainVars, store, detector, procs, job>>, FrameTypes', FrameInv(w)',
         EveryFaceTreated',
         \A v \in Worker : v # w =>
           /\ at'[v] = at[v] /\ picture'[v] = picture[v] /\ frame'[v] = frame[v]
           /\ step'[v] = step[v] /\ found'[v] = found[v] /\ given'[v] = given[v]
           /\ applied'[v] = applied[v] /\ noted'[v] = noted[v] /\ (v \in missed <=> v \in missed')
  PROVE  FacesInv'
<1>1. Pictures' /\ StoreInv'
  BY DEF FacesInv, Pictures, StoreInv, AnalyserToCome, mainVars, sourceVars
<1>2. \A v \in Worker : FrameInv(v)'
  BY WorkerStays DEF FacesInv
<1> QED BY <1>1, <1>2 DEF FacesInv

\* The next frame.
LEMMA TakeKeepsFaces ==
  ASSUME WorkersInv, FacesInv, NEW w \in Worker, TakeFrame(w), main = "running",
         UNCHANGED mainVars
  PROVE  FacesInv'
<1> DEFINE place == IF Needed # {} THEN "ask" ELSE "test"
<1>1. /\ at[w] = "idle" /\ next \in DOMAIN job
      /\ at' = [at EXCEPT ![w] = place] /\ frame' = [frame EXCEPT ![w] = next]
      /\ picture' = [picture EXCEPT ![w] = job[next]] /\ step' = [step EXCEPT ![w] = 1]
      /\ UNCHANGED <<store, detector, found, missed, procs, job, given, applied, noted, left>>
  BY DEF TakeFrame, Go
<1>2. /\ at \in [Worker -> Places] /\ step \in [Worker -> Nat] /\ frame \in [Worker -> Nat]
      /\ picture \in [Worker -> Picture \cup {Nothing}] /\ job[next] \in Picture
      /\ IsSequence(procs)
  BY <1>1 DEF WorkersInv, WorkerTypes, FacesInv, FrameTypes, Pictures
<1>3. FrameTypes'
  BY <1>1, <1>2 DEF FacesInv, FrameTypes, OfWorkers
<1>4. EveryFaceTreated'
  BY <1>1, LeftStays DEF FacesInv
<1>5. FrameInv(w)'
  <2>1. given[w] = {} /\ applied[w] = <<>> /\ noted[w] = {}
    BY <1>1 DEF FacesInv, FrameInv
  <2>2. /\ at'[w] = place /\ picture'[w] = job[next] /\ frame'[w] = next /\ step'[w] = 1
    BY <1>1, <1>2
  <2>3. /\ Needed' = Needed /\ \A p : Detected(p)' = Detected(p)
        /\ \A faces, n : Parts(n, faces)' = Parts(n, faces)
    BY <1>1, SamePipeline
  <2>4. CASE Needed # {}
    <3>1. at'[w] = "ask"
      BY <2>2, <2>4
    <3> QED BY <1>1, <2>1, <2>2, <2>3, <2>4, <3>1 DEF FrameInv, AnalysisPlaces, AdapterPlaces
  <2>5. CASE Needed = {}
    <3>1. at'[w] = "test"
      BY <2>2, <2>5
    <3>2. Account(w)'
      <4>1. \A faces : FlattenSeq(Parts(step'[w] - 1, faces)) = <<>>
        BY <2>2, WorkHolds
      <4>2. \A faces : <<>> \in Seq(Entered(faces)) /\ WentThrough(<<>>) = <<>>
        BY NothingEntered
      <4> QED BY <1>1, <2>1, <2>3, <2>5, <4>1, <4>2 DEF Account
    <3>3. step'[w] \in 1..(Len(procs) + 1)
      BY <1>2, <2>2 DEF IsSequence
    <3> QED BY <1>1, <2>1, <2>2, <2>3, <2>5, <3>1, <3>2, <3>3
            DEF FrameInv, AnalysisPlaces, AdapterPlaces
  <2> QED BY <2>4, <2>5
<1> QED BY <1>1, <1>2, <1>3, <1>4, <1>5, StepKeepsFaces

\* What the analysis has found is attached for the adapters that ask for it.
LEMMA PrepareKeepsFaces ==
  ASSUME WorkersInv, FacesInv, NEW w \in Worker, Prepare(w), main = "running", UNCHANGED mainVars
  PROVE  FacesInv'
<1>1. /\ at[w] = "prepare" /\ at' = [at EXCEPT ![w] = "test"]
      /\ given' = [given EXCEPT ![w] = IF found[w] = <<>> THEN {} ELSE Needed]
      /\ noted' = [noted EXCEPT ![w] = IF found[w] = <<>> THEN {"E403"} ELSE {}]
      /\ UNCHANGED <<store, detector, picture, found, missed, procs, job, frame, step, applied,
                     left>>
  BY DEF Prepare, Go
<1>2. /\ at \in [Worker -> Places] /\ OfWorkers(given)
      /\ noted \in [Worker -> SUBSET {"E403", "failed"}] /\ IsSequence(procs)
  BY DEF WorkersInv, WorkerTypes, FacesInv, FrameTypes
<1>3. FrameTypes'
  BY <1>1, <1>2 DEF FacesInv, FrameTypes, OfWorkers
<1>4. EveryFaceTreated'
  BY <1>1, LeftStays DEF FacesInv
<1>5. FrameInv(w)'
  <2>1. /\ applied[w] = <<>> /\ step[w] = 1 /\ Needed # {} /\ picture[w] = job[frame[w]]
        /\ w \in missed \/ found[w] = Detected(picture[w])
    BY <1>1 DEF FacesInv, FrameInv, AnalysisPlaces
  <2>2. /\ at'[w] = "test"
        /\ given'[w] = IF found[w] = <<>> THEN {} ELSE Needed
        /\ noted'[w] = IF found[w] = <<>> THEN {"E403"} ELSE {}
    BY <1>1, <1>2 DEF OfWorkers
  <2>3. /\ Needed' = Needed /\ \A p : Detected(p)' = Detected(p)
        /\ \A faces, n : Parts(n, faces)' = Parts(n, faces)
    BY <1>1, SamePipeline
  <2>4. found[w] = Detected(picture[w]) => Account(w)'
    <3>1. \A faces : FlattenSeq(Parts(step'[w] - 1, faces)) = <<>>
      BY <1>1, <2>1, WorkHolds
    <3>2. \A faces : <<>> \in Seq(Entered(faces)) /\ WentThrough(<<>>) = <<>>
      BY NothingEntered
    <3> QED BY <1>1, <2>1, <2>2, <2>3, <3>1, <3>2 DEF Account
  <2>5. step'[w] \in 1..(Len(procs) + 1)
    BY <1>1, <1>2, <2>1 DEF IsSequence
  <2> QED BY <1>1, <2>1, <2>2, <2>4, <2>5 DEF FrameInv, AnalysisPlaces, AdapterPlaces
<1> QED BY <1>1, <1>2, <1>3, <1>4, <1>5, StepKeepsFaces DEF OfWorkers

\* A frame leaves with what the account says.
LEMMA LeaveKeepsFaces ==
  ASSUME WorkersInv, FacesInv, NEW w \in Worker, LeaveFrame(w), main = "running",
         UNCHANGED mainVars
  PROVE  FacesInv'
<1> DEFINE r == [frame |-> frame[w], applied |-> applied[w], noted |-> noted[w],
                 missed |-> w \in missed]
<1>1. /\ at[w] = "test" /\ step[w] \notin DOMAIN procs
      /\ left' = left \cup {r}
      /\ at' = [at EXCEPT ![w] = "idle"]
      /\ found' = [found EXCEPT ![w] = <<>>] /\ missed' = missed \ {w}
      /\ given' = [given EXCEPT ![w] = {}]
      /\ applied' = [applied EXCEPT ![w] = <<>>] /\ noted' = [noted EXCEPT ![w] = {}]
      /\ UNCHANGED <<store, detector, picture, procs, job, frame, step>>
  BY DEF LeaveFrame, Go
<1>2. /\ at \in [Worker -> Places] /\ OfWorkers(given) /\ OfWorkers(found) /\ OfWorkers(applied)
      /\ noted \in [Worker -> SUBSET {"E403", "failed"}] /\ IsSequence(procs)
  BY DEF WorkersInv, WorkerTypes, FacesInv, FrameTypes
<1>3. FrameTypes'
  BY <1>1, <1>2 DEF FacesInv, FrameTypes, OfWorkers
<1>4. FrameInv(w)'
  BY <1>1, <1>2 DEF FrameInv, AnalysisPlaces, AdapterPlaces, OfWorkers
<1>5. EveryFaceTreated'
  <2> DEFINE faces == Detected(picture[w])
  <2>1. picture[w] \in Picture /\ picture[w] = job[frame[w]]
    BY <1>1, PictureHolds
  <2>2. Selected(faces) = faces
    BY <2>1, DetectedHolds
  <2>3. step[w] \in 1..(Len(procs) + 1) /\ (w \in missed \/ "failed" \in noted[w] \/ Account(w))
    BY <1>1 DEF FacesInv, FrameInv, AdapterPlaces
  <2>4. step[w] - 1 = Len(procs)
    BY <1>1, <1>2, <2>3 DEF IsSequence
  <2>5. ASSUME Account(w)
        PROVE  /\ WentThrough(applied[w]) = Treatment(StepTypes \ {"expression_restorer"}, faces)
               /\ \A n \in DOMAIN applied[w] :
                    applied[w][n].without # {} => applied[w][n].type = "face_enhancer"
               /\ "E403" \in noted[w] <=> Needed # {} /\ faces = <<>>
    <3>1. /\ WentThrough(applied[w]) = FlattenSeq(Parts(Len(procs), faces))
          /\ applied[w] \in Seq(Entered(faces))
          /\ "E403" \in noted[w] <=> Needed # {} /\ faces = <<>>
      BY <2>4, <2>5 DEF Account
    <3>2. \A n \in DOMAIN applied[w] : applied[w][n] \in Entered(faces)
      BY <3>1
    <3>3. \A n \in DOMAIN applied[w] :
            applied[w][n].without # {} => applied[w][n].type = "face_enhancer"
      BY <3>2 DEF Entered
    <3> QED BY <1>2, <3>1, <3>3, TreatmentHolds
  <2>6. r.frame = frame[w] /\ r.applied = applied[w] /\ r.noted = noted[w]
        /\ r.missed = (w \in missed)
    OBVIOUS
  <2> HIDE DEF r, faces
  <2>7. LET all == Selected(Detected(job[r.frame]))
        IN \/ r.missed \/ "failed" \in r.noted
           \/ /\ WentThrough(r.applied) = Treatment(StepTypes \ {"expression_restorer"}, all)
              /\ \A n \in DOMAIN r.applied :
                   r.applied[n].without # {} => r.applied[n].type = "face_enhancer"
              /\ "E403" \in r.noted <=> Needed # {} /\ all = <<>>
    BY <2>1, <2>2, <2>3, <2>5, <2>6 DEF faces
  <2>8. /\ Needed' = Needed /\ \A p : Detected(p)' = Detected(p)
        /\ \A types, all : Treatment(types, all)' = Treatment(types, all)
    BY <1>1, SamePipeline
  <2> QED BY <1>1, <2>7, <2>8 DEF FacesInv, EveryFaceTreated
<1> QED BY <1>1, <1>2, <1>3, <1>4, <1>5, StepKeepsFaces DEF OfWorkers

\* A worker on its way into an adapter.
LEMMA LockKeepsFaces ==
  ASSUME WorkersInv, FacesInv, NEW w \in Worker, main = "running", UNCHANGED mainVars,
         TestLoaded(w) \/ LockAndTest(w) \/ LoadModel(w) \/ LoadThrows(w) \/ StepThrows(w)
  PROVE  FacesInv'
<1>1. /\ UNCHANGED <<store, detector, picture, found, missed, procs, job, frame, step, given,
                     applied, noted, left>>
      /\ \/ at' = [at EXCEPT ![w] = at[w]]
         \/ at[w] \in AdapterPlaces /\ \E place \in AdapterPlaces : at' = [at EXCEPT ![w] = place]
  BY DEF TestLoaded, LockAndTest, LoadModel, LoadThrows, StepThrows, Moves, Go, AdapterPlaces
<1>2. at \in [Worker -> Places]
  BY DEF WorkersInv, WorkerTypes
<1>3. FrameTypes'
  BY <1>1 DEF FacesInv, FrameTypes, OfWorkers
<1>4. EveryFaceTreated'
  BY <1>1, LeftStays DEF FacesInv
<1>5. FrameInv(w)'
  <2>1. CASE at' = [at EXCEPT ![w] = at[w]]
    BY <1>1, <1>2, <2>1, WorkerStays DEF FacesInv
  <2>2. CASE at[w] \in AdapterPlaces /\ \E place \in AdapterPlaces : at' = [at EXCEPT ![w] = place]
    <3>1. at'[w] \in AdapterPlaces
      BY <1>2, <2>2
    <3>2. at'[w] \notin AnalysisPlaces /\ at'[w] # "idle" /\ at[w] # "idle"
          /\ at'[w] \notin {"askAgain", "readAgain", "insert"} /\ at'[w] # "prepare"
      BY <2>2, <3>1 DEF AdapterPlaces, AnalysisPlaces
    <3>3. /\ picture[w] = job[frame[w]] /\ step[w] \in 1..(Len(procs) + 1)
          /\ w \in missed \/ "failed" \in noted[w] \/ Account(w)
      BY <2>2, <3>2 DEF FacesInv, FrameInv
    <3>4. /\ Needed' = Needed /\ \A p : Detected(p)' = Detected(p)
          /\ \A faces, n : Parts(n, faces)' = Parts(n, faces)
      BY <1>1, SamePipeline
    <3>5. Account(w) => Account(w)'
      BY <1>1, <3>4 DEF Account
    <3> QED BY <1>1, <3>2, <3>3, <3>5 DEF FrameInv
  <2> QED BY <1>1, <2>1, <2>2
<1> QED BY <1>1, <1>2, <1>3, <1>4, <1>5, StepKeepsFaces

\* An adapter does its work, or says that it has failed.
LEMMA ApplyKeepsFaces ==
  ASSUME WorkersInv, FacesInv, NEW w \in Worker, main = "running", UNCHANGED mainVars,
         ApplyStep(w) \/ StepFails(w)
  PROVE  FacesInv'
<1> DEFINE k == step[w]
           type == procs[k].type
           faces == Detected(picture[w])
           all == IF type = "frame_enhancer" THEN <<>> ELSE found[w]
           done == [type |-> type, faces |-> all]
           Line(b) == [type |-> type, faces |-> all, without |-> b]
<1>1. /\ at[w] = "use" /\ at' = [at EXCEPT ![w] = "test"] /\ step' = [step EXCEPT ![w] = @ + 1]
      /\ UNCHANGED <<store, detector, picture, found, missed, procs, job, frame, given, left>>
      /\ \/ noted' = [noted EXCEPT ![w] = @ \cup {"failed"}] /\ applied' = applied
         \/ /\ noted' = noted
            /\ IF Changes(type, given[w])
                 THEN \E b \in SUBSET DOMAIN all :
                        /\ b # {} => type = "face_enhancer"
                        /\ applied' = [applied EXCEPT ![w] = Append(@, Line(b))]
                 ELSE applied' = applied
  BY DEF ApplyStep, StepFails, NextStep, Go, Here
<1>2. /\ at \in [Worker -> Places] /\ step \in [Worker -> Nat] /\ OfWorkers(applied)
      /\ noted \in [Worker -> SUBSET {"E403", "failed"}] /\ IsSequence(procs)
  BY DEF WorkersInv, WorkerTypes, FacesInv, FrameTypes
<1> HIDE DEF done, all, Line
<1>3. FrameTypes'
  <2>1. noted' \in [Worker -> SUBSET {"E403", "failed"}]
    BY <1>1, <1>2
  <2>2. OfWorkers(applied)'
    BY <1>1, <1>2 DEF OfWorkers
  <2> QED BY <1>1, <2>1, <2>2 DEF FacesInv, FrameTypes, OfWorkers
<1>others. \A v \in Worker : v # w =>
         at'[v] = at[v] /\ step'[v] = step[v] /\ applied'[v] = applied[v] /\ noted'[v] = noted[v]
  BY <1>1, <1>2 DEF OfWorkers
<1>4. EveryFaceTreated'
  BY <1>1, LeftStays DEF FacesInv
<1>5. /\ k \in DOMAIN procs /\ picture[w] = job[frame[w]]
      /\ w \in missed \/ "failed" \in noted[w] \/ Account(w)
  BY <1>1 DEF WorkersInv, Locking, FacesInv, FrameInv, AdapterPlaces
<1>6. /\ at'[w] = "test" /\ step'[w] = k + 1 /\ step'[w] \in 1..(Len(procs) + 1)
  BY <1>1, <1>2, <1>5 DEF IsSequence
<1>7. "failed" \in noted[w] => "failed" \in noted'[w]
  BY <1>1, <1>2
<1>8. CASE noted' = [noted EXCEPT ![w] = @ \cup {"failed"}]
  <2>1. "failed" \in noted'[w]
    BY <1>2, <1>8
  <2>2. FrameInv(w)'
    BY <1>1, <1>5, <1>6, <2>1 DEF FrameInv, AnalysisPlaces
  <2> QED BY <1>1, <1>3, <1>4, <1>others, <2>2, StepKeepsFaces
<1>9. CASE noted' = noted /\ IF Changes(type, given[w])
                               THEN \E b \in SUBSET DOMAIN all :
                                      /\ b # {} => type = "face_enhancer"
                                      /\ applied' = [applied EXCEPT ![w] = Append(@, Line(b))]
                               ELSE applied' = applied
  <2>1. ASSUME Account(w)
        PROVE  Account(w)'
    <3> DEFINE before == FlattenSeq(Parts(k - 1, faces))
    <3>1. /\ Needed # {} => found[w] = faces
          /\ given[w] = IF faces = <<>> THEN {} ELSE Needed
          /\ "E403" \in noted[w] <=> Needed # {} /\ faces = <<>>
          /\ applied[w] \in Seq(Entered(faces)) /\ WentThrough(applied[w]) = before
      BY <2>1 DEF Account
    <3>2. k - 1 \in Nat /\ (k - 1) + 1 = k /\ (k + 1) - 1 = k
      BY <1>2, <1>5 DEF IsSequence
    <3>3. before \in Seq(Works(faces)) /\ FlattenSeq(Parts(k, faces)) = before \o Work(k, faces)
      BY <3>2, WorkHolds
    <3>4. type \in Types /\ (type \in Needed <=> type \in FaceTypes)
      BY <1>5 DEF Types, Needed
    <3>5. /\ Changes(type, given[w]) => Work(k, faces) = <<done>>
          /\ ~Changes(type, given[w]) => Work(k, faces) = <<>>
      <4>1. CASE type = "frame_enhancer"
        BY <4>1 DEF Changes, Work, done, all
      <4>2. CASE type \in {"face_swapper", "face_enhancer"} /\ faces # <<>>
        <5>1. type \in Needed /\ type # "frame_enhancer" /\ type # "expression_restorer"
          BY <3>4, <4>2 DEF FaceTypes
        <5>2. found[w] = faces /\ Changes(type, given[w])
          BY <3>1, <4>2, <5>1 DEF Changes
        <5>3. Work(k, faces) = <<[type |-> type, faces |-> faces]>>
          BY <4>2 DEF Work
        <5> QED BY <5>1, <5>2, <5>3 DEF done, all
      <4>3. CASE /\ type # "frame_enhancer"
                 /\ ~(type \in {"face_swapper", "face_enhancer"} /\ faces # <<>>)
        <5>1. Work(k, faces) = <<>>
          BY <4>3 DEF Work
        <5>2. ~Changes(type, given[w])
          BY <3>1, <3>4, <4>3 DEF Changes, FaceTypes
        <5> QED BY <5>1, <5>2
      <4> QED BY <4>1, <4>2, <4>3
    <3> HIDE DEF before
    <3>6. /\ applied'[w] \in Seq(Entered(faces))
          /\ WentThrough(applied'[w]) = FlattenSeq(Parts(k, faces))
      <4>1. CASE Changes(type, given[w])
        <5>1. PICK b \in SUBSET DOMAIN all :
                /\ b # {} => type = "face_enhancer"
                /\ applied' = [applied EXCEPT ![w] = Append(@, Line(b))]
          BY <1>9, <4>1
        <5>2. applied'[w] = Append(applied[w], Line(b))
          BY <1>2, <5>1 DEF OfWorkers
        <5>3. Line(b) \in Entered(faces)
          <6>1. type \in {"frame_enhancer", "face_swapper", "face_enhancer"}
            BY <3>1, <3>4, <4>1 DEF Changes, FaceTypes
          <6>2. all \in {<<>>, faces}
            BY <3>1, <3>4, <6>1 DEF all, FaceTypes
          <6>3. b \in SUBSET DOMAIN faces
            BY <5>1, <6>2
          <6> QED BY <5>1, <6>1, <6>2, <6>3 DEF Entered, Line
        <5>4. done = [type |-> Line(b).type, faces |-> Line(b).faces]
          BY DEF done, Line
        <5> QED BY <3>1, <3>3, <3>5, <4>1, <5>2, <5>3, <5>4, AccountGrows
      <4>2. CASE ~Changes(type, given[w])
        <5>1. before \o <<>> = before
          BY <3>3
        <5> QED BY <1>9, <3>1, <3>3, <3>5, <4>2, <5>1
      <4> QED BY <4>1, <4>2
    <3>7. /\ Needed' = Needed /\ \A p : Detected(p)' = Detected(p)
          /\ \A some, n : Parts(n, some)' = Parts(n, some)
      BY <1>1, SamePipeline
    <3> QED BY <1>1, <1>6, <1>9, <3>1, <3>2, <3>6, <3>7 DEF Account
  <2>2. FrameInv(w)'
    BY <1>1, <1>5, <1>6, <1>9, <2>1 DEF FrameInv, AnalysisPlaces
  <2> QED BY <1>1, <1>3, <1>4, <1>others, <2>2, StepKeepsFaces
<1> QED BY <1>1, <1>8, <1>9

\* What the main thread does while the workers are idle and the pipeline stays.
LEMMA QuietKeepsFaces ==
  ASSUME WorkersInv, FacesInv, UNCHANGED <<detector, procs, job, left, frameVars, store>>,
         Pictures', AnalyserToCome' => AnalyserToCome
  PROVE  FacesInv'
<1>1. UNCHANGED <<at, picture, found, missed, frame, step, given, applied, noted>>
  BY DEF frameVars
<1>2. FrameTypes' /\ StoreInv'
  BY <1>1 DEF FacesInv, FrameTypes, OfWorkers, StoreInv
<1>3. \A v \in Worker : FrameInv(v)'
  BY <1>1, WorkerStays DEF FacesInv
<1>4. EveryFaceTreated'
  BY LeftStays DEF FacesInv
<1> QED BY <1>2, <1>3, <1>4 DEF FacesInv

\* When all workers are idle nothing hangs on the pipeline or the detector but the
\* frames that have left.
LEMMA IdleFrames ==
  ASSUME FacesInv, \A w \in Worker : at[w] = "idle", UNCHANGED frameVars
  PROVE  \A w \in Worker : FrameInv(w)'
<1>1. \A w \in Worker : given[w] = {} /\ applied[w] = <<>> /\ noted[w] = {}
  BY DEF FacesInv, FrameInv
<1> QED BY <1>1 DEF frameVars, FrameInv, AnalysisPlaces, AdapterPlaces

\* The pictures of a file, and of a sequence of files.
LEMMA PathsShow == \A path \in Paths : Shows[path] \in Seq(Picture)
<1>1. Shows \in [Paths -> Seq(Picture)]
  BY ProcessingAssumption, Zenon DEF Paths
<1> QED BY <1>1

\* What a file shows is a sequence of pictures.
LEMMA ShownHolds ==
  ASSUME NEW s \in Seq(Paths)
  PROVE  [i \in DOMAIN s |-> Shows[s[i]]] \in Seq(Seq(Picture))
<1>1. \A i \in DOMAIN s : Shows[s[i]] \in Seq(Picture)
  BY PathsShow
<1>2. DOMAIN s = 1..Len(s) /\ Len(s) \in Nat
  OBVIOUS
<1> DEFINE t == [i \in DOMAIN s |-> Shows[s[i]]]
<1>3. t = [i \in 1..Len(s) |-> t[i]]
  BY <1>2
<1> HIDE DEF t
<1>4. \A i \in 1..Len(s) : t[i] \in Seq(Picture)
  BY <1>1, <1>2 DEF t
<1>5. t \in Seq(Seq(Picture))
  BY <1>2, <1>3, <1>4
<1> QED BY <1>5 DEF t

\* The jobs of a task are made of pictures.
LEMMA TargetsKeepPictures ==
  ASSUME PlanInv, FacesInv, CheckTargets
  PROVE  Pictures'
<1> DEFINE targets == task.targets
           video == {i \in DOMAIN targets : KindOf[targets[i]] = "video"}
           images == Kept(targets, DOMAIN targets \ video)
           videos == Kept(targets, video)
           shown == [i \in DOMAIN images |-> Shows[images[i]]]
           batch == FlattenSeq(shown)
           each == [i \in DOMAIN videos |-> Shows[videos[i]]]
           first == IF images = <<>> THEN <<>> ELSE <<batch>>
<1>1. main = "targets" /\ main' \in {"jobs", "done"} /\ job' = job
      /\ jobs' \in {jobs, first \o each}
  BY DEF CheckTargets, Ends, processorVars
<1>2. IsSequence(targets) /\ ToSet(targets) \subseteq Paths
  BY <1>1 DEF PlanInv, Chosen, Planned, Paths
<1> HIDE DEF targets, video
<1>3. images \in Seq(Paths) /\ videos \in Seq(Paths)
  <2>1. ASSUME NEW I
        PROVE  Kept(targets, I) \in Seq(Paths)
    <3> DEFINE S == {targets[i] : i \in DOMAIN targets \cap I}
    <3>1. Kept(targets, I) \in Seq(S)
      BY <1>2, KeptHolds
    <3>2. S \subseteq Paths
      BY <1>2 DEF ToSet
    <3> HIDE DEF S
    <3> QED BY <3>1, <3>2
  <2> QED BY <2>1
<1> HIDE DEF images, videos
<1>4. shown \in Seq(Seq(Picture)) /\ each \in Seq(Seq(Picture))
  BY <1>3, ShownHolds
<1> HIDE DEF shown, each
<1>5. batch \in Seq(Picture)
  BY <1>4, FlattenHolds
<1> HIDE DEF batch
<1>6. first \in Seq(Seq(Picture))
  BY <1>5
<1> HIDE DEF first
<1>7. jobs' \in Seq(Seq(Picture))
  <2> DEFINE T == Seq(Picture)
  <2>1. first \in Seq(T) /\ each \in Seq(T) /\ jobs \in Seq(T)
    BY <1>4, <1>6 DEF FacesInv, Pictures
  <2> HIDE DEF T
  <2>2. first \o each \in Seq(T)
    BY <2>1
  <2> QED BY <1>1, <2>1, <2>2 DEF T
<1> QED BY <1>1, <1>7 DEF FacesInv, Pictures

\* The faces of a source go into the store.
LEMMA SourceKeepsFaces ==
  ASSUME WorkersInv, FacesInv, LoadSource
  PROVE  FacesInv'
<1> DEFINE shown == Shows[Head(unseen)]
           p == Head(shown)
<1>1. /\ main = "sources" /\ main' = main /\ unseen # <<>> /\ unseen' = Tail(unseen)
      /\ UNCHANGED <<detector, procs, job, left, frameVars, jobs, needs>>
      /\ store' = IF shown = <<>> THEN store ELSE StoreAlone(store, p)
  BY DEF LoadSource, processorVars
<1>2. IsSequence(unseen) /\ ToSet(unseen) \subseteq Paths
  BY <1>1 DEF FacesInv, Pictures
<1>3. Head(unseen) \in Paths /\ unseen' \in Seq(Paths)
  BY <1>1, <1>2 DEF IsSequence
<1>4. shown # <<>> => p \in Picture
  BY <1>3, PathsShow
<1>5. store \in Seq(Entries) /\ (store # <<>> => detector)
  BY DEF FacesInv, StoreInv
<1> HIDE DEF p
<1>6. store' \in Seq(Entries) /\ (store' # <<>> => detector)
  <2>1. CASE shown = <<>>
    BY <1>1, <1>5, <2>1
  <2>2. CASE shown # <<>>
    BY <1>1, <1>4, <1>5, <2>2, TouchedHolds, InsertedHolds DEF StoreAlone
  <2> QED BY <2>1, <2>2
<1>7. StoreInv'
  BY <1>1, <1>6 DEF StoreInv, AnalyserToCome
<1>8. Pictures'
  <2>1. IsSequence(unseen') /\ ToSet(unseen') \subseteq Paths
    BY <1>3, SequenceOver
  <2> QED BY <1>1, <2>1 DEF FacesInv, Pictures, AnalyserToCome
<1>9. UNCHANGED <<at, picture, found, missed, frame, step, given, applied, noted>>
  BY <1>1 DEF frameVars
<1>10. FrameTypes'
  BY <1>1, <1>9 DEF FacesInv, FrameTypes, OfWorkers
<1>11. \A v \in Worker : FrameInv(v)'
  BY <1>1, <1>9, WorkerStays DEF FacesInv
<1>12. EveryFaceTreated'
  BY <1>1, LeftStays DEF FacesInv
<1> QED BY <1>7, <1>8, <1>10, <1>11, <1>12 DEF FacesInv

\* The analyser is made while the store is empty and nothing has left.
LEMMA AnalyserKeepsFaces ==
  ASSUME PlanInv, WorkersInv, FacesInv, MakeAnalyser
  PROVE  FacesInv'
<1>1. /\ main = "ensure" /\ AnalyserToCome /\ main' \in {"sources", "done"}
      /\ main' = "sources" => unseen' = task.sources
      /\ UNCHANGED <<procs, job, left, frameVars, jobs, store>>
  BY DEF MakeAnalyser, AnalyserToCome, Throws, Ends
<1>2. store = <<>> /\ left = {}
  BY <1>1 DEF FacesInv, StoreInv
<1>3. \A w \in Worker : at[w] = "idle"
  BY <1>1 DEF WorkersInv, InWork
<1>4. Pictures'
  <2>1. IsSequence(task.sources) /\ ToSet(task.sources) \subseteq Paths
    BY <1>1 DEF PlanInv, Chosen, Planned, Paths
  <2> QED BY <1>1, <2>1 DEF FacesInv, Pictures
<1>5. StoreInv' /\ EveryFaceTreated'
  BY <1>1, <1>2 DEF FacesInv, StoreInv, EveryFaceTreated
<1>6. FrameTypes'
  BY <1>1 DEF FacesInv, FrameTypes, OfWorkers, frameVars
<1> QED BY <1>1, <1>3, <1>4, <1>5, <1>6, IdleFrames DEF FacesInv

\* A new pipeline, with the workers idle.
LEMMA StartKeepsFaces ==
  ASSUME PlanInv, WorkersInv, FacesInv, StartPipeline
  PROVE  FacesInv'
<1>1. /\ main = "ensure" /\ main' = "running" /\ needs = <<>>
      /\ procs' = Adapters /\ job' = Head(jobs) /\ jobs' = Tail(jobs) /\ left' = {}
      /\ UNCHANGED <<frameVars, store, detector, needs>>
  BY DEF StartPipeline, NewPipeline, analysisVars, frameVars
<1>2. ~AnalyserToCome /\ ~AnalyserToCome'
  BY <1>1 DEF AnalyserToCome
<1>3. \A w \in Worker : at[w] = "idle"
  BY <1>1 DEF WorkersInv, InWork
<1>4. Pictures'
  <2>1. jobs \in Seq(Seq(Picture)) /\ jobs # <<>>
    BY <1>1, <1>2 DEF FacesInv, Pictures
  <2>2. job' \in Seq(Picture) /\ jobs' \in Seq(Seq(Picture))
    BY <1>1, <2>1
  <2> QED BY <1>1, <2>2 DEF Pictures
<1>5. StoreInv' /\ EveryFaceTreated'
  BY <1>1, <1>2 DEF FacesInv, StoreInv, EveryFaceTreated
<1>6. IsSequence(procs')
  <2>1. IsSequence(Steps)
    BY <1>1, StepsHold DEF PlanInv, Chosen
  <2>2. Adapters = [i \in DOMAIN Steps |-> Adapters[i]]
    BY DEF Adapters
  <2> QED BY <1>1, <2>1, <2>2, MappedSequence
<1>7. FrameTypes'
  BY <1>1, <1>6 DEF FacesInv, FrameTypes, OfWorkers, frameVars
<1> QED BY <1>1, <1>3, <1>4, <1>5, <1>7, IdleFrames DEF FacesInv

\* The main thread starts jobs with idle workers, and the analyser with its detector.
LEMMA MainKeepsFaces ==
  ASSUME PlanInv, WorkersInv, FacesInv, MainStep
  PROVE  FacesInv'
<1>1. CASE LoadSource
  BY <1>1, SourceKeepsFaces
<1>2. CASE MakeAnalyser
  BY <1>2, AnalyserKeepsFaces
<1>3. CASE StartPipeline
  BY <1>3, StartKeepsFaces
<1>4. CASE CheckTargets
  <2>1. UNCHANGED <<detector, procs, job, left, frameVars, store>> /\ main' \in {"jobs", "done"}
    BY <1>4 DEF CheckTargets, analysisVars, processorVars, frameVars, Ends
  <2>2. ~AnalyserToCome'
    BY <2>1 DEF AnalyserToCome
  <2> QED BY <1>4, <2>1, <2>2, TargetsKeepPictures, QuietKeepsFaces
<1>5. CASE BeginJob \/ ServiceReady
  <2>1. /\ UNCHANGED <<detector, procs, job, left, frameVars, store, jobs>>
        /\ main # "sources" /\ main' \in {"ensure", "done"}
        /\ main = "jobs" => jobs # <<>>
        /\ main \in {"jobs", "ensure"}
    BY <1>5 DEF BeginJob, ServiceReady, analysisVars, processorVars, frameVars, Ends, Throws
  <2>2. ~AnalyserToCome
    BY <1>5 DEF BeginJob, ServiceReady, AnalyserToCome
  <2>3. ~AnalyserToCome'
    <3>1. CASE BeginJob
      <4>1. main = "jobs" /\ needs' = Needs
        BY <3>1 DEF BeginJob
      <4>2. Planned(world, task)
        BY <4>1 DEF PlanInv, Chosen
      <4>3. /\ IsSequence(Needs)
            /\ \A n \in ToSet(Needs) : \E i \in DOMAIN Steps : n = Need(Steps[i].type)
        BY <4>2, StepsHold, NeedsHold
      <4>4. \A i \in DOMAIN Steps : Steps[i].type \in StepTypes
        BY <4>2, StepsHold DEF Planned
      <4>5. Needs # <<>> => Head(Needs) \in ToSet(Needs)
        BY <4>3 DEF IsSequence
      <4>6. Needs # <<>> => Head(Needs).type # "analyser"
        BY <4>3, <4>4, <4>5, NeedHolds DEF StepTypes
      <4> QED BY <2>1, <4>1, <4>6 DEF AnalyserToCome
    <3>2. CASE ServiceReady
      <4>1. /\ main = "ensure" /\ needs # <<>>
            /\ main' = "done" \/ needs' = Tail(needs)
        BY <3>2 DEF ServiceReady, Ends, Throws
      <4>2. IsSequence(needs) /\ \A n \in ToSet(needs) : n.type # "analyser"
        BY <2>2, <4>1 DEF PlanInv, Preparing, NeedsAreNeeds
      <4>3. Tail(needs) # <<>> => Head(Tail(needs)) \in ToSet(needs)
        BY <4>1, <4>2 DEF IsSequence
      <4> QED BY <2>1, <4>1, <4>2, <4>3 DEF AnalyserToCome
    <3> QED BY <1>5, <3>1, <3>2
  <2>4. Pictures'
    BY <2>1, <2>2 DEF FacesInv, Pictures
  <2> QED BY <2>1, <2>3, <2>4, QuietKeepsFaces
<1>6. CASE Configure \/ EnsureModel \/ Fetch \/ FoundAfterAll \/ Fetched \/ FetchThrows
             \/ SourcesLoaded \/ JobEnds \/ TaskEnds
  <2>1. /\ UNCHANGED <<detector, procs, job, left, frameVars, store, jobs>>
        /\ main' # "sources"
        /\ \/ main = "configure" /\ main' \in {"done", "ensure"}
           \/ main \in {"ensure", "download"} /\ main' \in {"ensure", "download"} /\ needs' = needs
           \/ main' \notin {"configure", "ensure", "download"}
    BY <1>6
    DEF Configure, EnsureModel, Fetch, FoundAfterAll, Fetched, FetchThrows, SourcesLoaded, JobEnds,
        TaskEnds, Look, Ends, Throws, analysisVars, processorVars, frameVars
  <2>2. AnalyserToCome' => AnalyserToCome
    BY <2>1 DEF AnalyserToCome
  <2>3. Pictures'
    <3>1. CASE main = "configure" /\ main' = "ensure"
      <4>1. AnalyserToCome'
        BY <1>6, <3>1, AnalyserIsFirst
        DEF EnsureModel, Fetch, FoundAfterAll, Fetched, FetchThrows, SourcesLoaded, JobEnds,
            TaskEnds
      <4> QED BY <2>1, <4>1 DEF FacesInv, Pictures
    <3>2. CASE main \in {"ensure", "download"} /\ main' \in {"ensure", "download"} /\ needs' = needs
      BY <2>1, <3>2 DEF FacesInv, Pictures, AnalyserToCome
    <3>3. CASE main' \notin {"configure", "ensure", "download"}
      BY <2>1, <3>3 DEF FacesInv, Pictures
    <3> QED BY <2>1, <3>1, <3>2, <3>3
  <2> QED BY <2>1, <2>2, <2>3, QuietKeepsFaces
<1> QED BY <1>1, <1>2, <1>3, <1>4, <1>5, <1>6 DEF MainStep

\* Whatever happens.
LEMMA NextKeepsFaces == PlanInv /\ WorkersInv /\ FacesInv /\ [Next]_vars => FacesInv'
<1> SUFFICES ASSUME PlanInv, WorkersInv, FacesInv, [Next]_vars
             PROVE  FacesInv'
  OBVIOUS
<1>1. CASE UNCHANGED vars \/ Other
  <2>1. UNCHANGED <<detector, procs, job, left, frameVars, store, mainVars>>
    BY <1>1 DEF vars, Other, analysisVars, processorVars, frameVars
  <2>2. Pictures' /\ AnalyserToCome' = AnalyserToCome
    BY <2>1 DEF FacesInv, Pictures, AnalyserToCome, mainVars, sourceVars
  <2> QED BY <2>1, <2>2, QuietKeepsFaces
<1>2. CASE MainStep
  BY <1>2, MainKeepsFaces
<1>3. CASE Workers
  <2>1. PICK w \in Worker : main = "running" /\ WorkerStep(w) /\ UNCHANGED <<mainVars, wanted>>
    BY <1>3 DEF Workers
  <2> QED BY <2>1, AnalysisKeepsFaces, TakeKeepsFaces, PrepareKeepsFaces, LeaveKeepsFaces,
             LockKeepsFaces, ApplyKeepsFaces DEF WorkerStep
<1> QED BY <1>1, <1>2, <1>3 DEF Next

\* The program starts without frames.
LEMMA FacesStart == Init => FacesInv
<1> SUFFICES ASSUME Init
             PROVE  FacesInv
  OBVIOUS
<1>1. /\ main = "configure" /\ jobs = <<>> /\ job = <<>> /\ store = <<>> /\ left = {}
      /\ procs = <<>> /\ at = [w \in Worker |-> "idle"] /\ picture = [w \in Worker |-> Nothing]
      /\ found = [w \in Worker |-> <<>>] /\ given = [w \in Worker |-> {}]
      /\ applied = [w \in Worker |-> <<>>] /\ noted = [w \in Worker |-> {}] /\ missed = {}
  BY DEF Init, ProcessorsInit
<1>2. Pictures /\ StoreInv /\ EveryFaceTreated
  BY <1>1 DEF Pictures, StoreInv, EveryFaceTreated
<1>3. FrameTypes
  <2>1. IsSequence(procs)
    BY <1>1 DEF IsSequence
  <2> QED BY <1>1, <2>1 DEF FrameTypes, OfWorkers
<1>4. \A w \in Worker : FrameInv(w)
  BY <1>1 DEF FrameInv, AnalysisPlaces, AdapterPlaces
<1> QED BY <1>2, <1>3, <1>4 DEF FacesInv

\* A frame leaves the pipeline after every step of the task but the restoring of
\* expressions has gone, in order, through just the faces of its own picture, leaving
\* out none but those a face enhancer's model returned nothing for, and the frame is
\* called faceless only if there are none, unless
\* a step failed and said so, or its entry went from the store between the two calls
\* of get_many_faces that ask for it and read it. For any number of workers, of
\* pictures and of steps, and a store of any size (FaceAnalyser::get_many_faces,
\* FaceStore, FaceAnalysisProcessor::process, the adapters' process).
THEOREM FacesAreTreated == Spec => []EveryFaceTreated
<1>1. FacesInv => EveryFaceTreated
  BY DEF FacesInv
<1> QED BY <1>1, FilesBegin, WorkersBegin, PlanStart, FacesStart, NextKeepsFiles, NextKeepsPlan,
           NextKeepsWorkers, NextKeepsFaces, PTL DEF Spec
==============================================================================
