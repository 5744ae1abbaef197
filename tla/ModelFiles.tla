----------------------------- MODULE ModelFiles -----------------------------
(***************************************************************************)
(* The model files on the disk and the processes that download them: this  *)
(* program and others that use the same directory.  A download goes into a *)
(* file with a temporary name and is renamed when it is complete.  Names   *)
(* and files are kept apart: a process writes to the file it has opened,   *)
(* whatever has become of its name.                                        *)
(***************************************************************************)
EXTENDS Naturals, FiniteSets

CONSTANTS Model, Process,
          Chunks,            \* pieces in which a model arrives
          Nothing

ASSUME ModelFilesAssumption == Chunks \in Nat \ {0}

File == Process \X Model     \* a file is known by who created it, and for what
Whole == 1..Chunks

ASSUME NothingAssumption == Nothing \notin Model \cup File

NoDownload == [model |-> Nothing]

VARIABLES listed,            \* the models models_info.json names
          diskFull,          \* a write may fail
          final, temporary,  \* the file under each name of a model, or Nothing
          content,           \* pieces each file holds
          download,          \* what each process is downloading
          overlapped         \* history: models two processes have downloaded at once

fileVars == <<listed, diskFull, final, temporary, content, download, overlapped>>

FilesInit(names, present, full) ==
  /\ listed = names
  /\ diskFull = full
  /\ final = [m \in Model |-> IF m \in present THEN <<CHOOSE p \in Process : TRUE, m>> ELSE Nothing]
  /\ temporary = [m \in Model |-> Nothing]
  /\ content = [f \in File |-> IF final[f[2]] = f THEN Whole ELSE {}]
  /\ download = [p \in Process |-> NoDownload]
  /\ overlapped = {}

Present(m) == final[m] # Nothing
Loadable(m) == Present(m) /\ content[final[m]] = Whole
Downloading(p, m) == download[p].model = m

-----------------------------------------------------------------------------
(* download, after ensure_model has seen a listed model that is not there.
   Another process may have put it there since that look, and the model is
   downloaded all the same; a process that has put it there itself does not. *)

\* Seeded bug: the model is downloaded under its final name.
OpenFinal(p, m) ==
  /\ download[p] = NoDownload
  /\ m \in listed /\ final[m] # <<p, m>>
  /\ final' = [final EXCEPT ![m] = <<p, m>>]
  /\ temporary' = [temporary EXCEPT ![m] = <<p, m>>]
  /\ content' = [content EXCEPT ![<<p, m>>] = {}]
  /\ download' = [download EXCEPT ![p] = [model |-> m, file |-> <<p, m>>, got |-> 0, good |-> TRUE]]
  /\ UNCHANGED <<listed, diskFull, overlapped>>

\* The temporary file is opened and emptied.
OpenTemporary(p, m) ==
  /\ download[p] = NoDownload
  /\ m \in listed /\ final[m] # <<p, m>>
  /\ LET file == IF temporary[m] = Nothing THEN <<p, m>> ELSE temporary[m] IN
       /\ temporary' = [temporary EXCEPT ![m] = file]
       /\ content' = [content EXCEPT ![file] = {}]
       /\ download' = [download EXCEPT ![p] = [model |-> m, file |-> file, got |-> 0, good |-> TRUE]]
  /\ overlapped' = overlapped \cup {x \in {m} : \E q \in Process : Downloading(q, x)}
  /\ UNCHANGED <<listed, diskFull, final>>

\* A piece arrives.  It is written to the file at its place, unless writing has
\* failed before or fails now; the download goes on in any case.
WriteChunk(p) ==
  /\ download[p] # NoDownload
  /\ LET d == download[p] IN
       /\ d.got < Chunks
       /\ \E good \in {d.good, d.good /\ ~diskFull} :
            /\ download' = [download EXCEPT ![p].got = @ + 1, ![p].good = good]
            /\ content' = IF good THEN [content EXCEPT ![d.file] = @ \cup {d.got + 1}] ELSE content
  /\ UNCHANGED <<listed, diskFull, final, temporary, overlapped>>

\* The connection breaks, or the answer was none: the temporary name is removed,
\* and download throws.
DownloadFails(p) ==
  /\ download[p] # NoDownload
  /\ temporary' = [temporary EXCEPT ![download[p].model] = Nothing]
  /\ download' = [download EXCEPT ![p] = NoDownload]
  /\ UNCHANGED <<listed, diskFull, final, content, overlapped>>

Complete(p) == download[p] # NoDownload /\ download[p].got = Chunks

\* The file that has the temporary name gets the final one.
RenameModel(p) ==
  /\ Complete(p)
  /\ LET m == download[p].model IN
       /\ temporary[m] # Nothing
       /\ final' = [final EXCEPT ![m] = temporary[m]]
       /\ temporary' = [temporary EXCEPT ![m] = Nothing]
  /\ download' = [download EXCEPT ![p] = NoDownload]
  /\ UNCHANGED <<listed, diskFull, content, overlapped>>

\* Somebody else has renamed or removed it: rename throws.
RenameFails(p) ==
  /\ Complete(p)
  /\ temporary[download[p].model] = Nothing
  /\ download' = [download EXCEPT ![p] = NoDownload]
  /\ UNCHANGED <<listed, diskFull, final, temporary, content, overlapped>>

\* The process is killed; the temporary file stays.
DownloaderDies(p) ==
  /\ download[p] # NoDownload
  /\ download' = [download EXCEPT ![p] = NoDownload]
  /\ UNCHANGED <<listed, diskFull, final, temporary, content, overlapped>>

-----------------------------------------------------------------------------
(* Properties *)

\* ensure_model takes a file that is there for the model.  It may: whatever has
\* died or broken off, a file under the final name of a model is whole, unless
\* the disk was full or two processes have downloaded the model at one time.
ModelIsWhole ==
  \A m \in Model : Present(m) => Loadable(m) \/ diskFull \/ m \in overlapped
=============================================================================
