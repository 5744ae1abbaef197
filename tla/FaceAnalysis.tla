---------------------------- MODULE FaceAnalysis ----------------------------
(***************************************************************************)
(* FaceAnalyser::get_many_faces over the face store, as concurrent workers *)
(* run it.  The store is a bounded cache from pictures to faces with one   *)
(* mutex per call: what one call has found may be gone at the next.        *)
(* Workers ask for boxes and landmarks only, so that whatever the store    *)
(* holds satisfies them.                                                   *)
(***************************************************************************)
EXTENDS Naturals, SequencesExt

CONSTANTS Worker, Picture,
          FacesOf,           \* the faces of each picture, in the order of the selector
          Passing,           \* the faces the selector's filters let through
          OnlyOne,           \* the selector keeps the first face only
          Capacity           \* max_capacity, 1000

ASSUME FaceAssumption ==
  Capacity \in Nat \ {0} /\ \A p \in Picture : IsInjective(FacesOf[p])

VARIABLES store,             \* the entries, the one used last in front
          detector,          \* the analyser has a detector
          at,                \* where each worker is
          picture,           \* the picture of its frame
          found,             \* the faces get_many_faces returns for it
          missed             \* history: the entry was there and then it was not

analysisVars == <<store, detector, at, picture, found, missed>>

-----------------------------------------------------------------------------
(* The face store *)

Has(s, p) == \E i \in DOMAIN s : s[i].key = p
Place(s, p) == CHOOSE i \in DOMAIN s : s[i].key = p
Entry(s, p) == s[Place(s, p)]
Others(s, p) == RemoveAt(s, Place(s, p))

\* get_faces makes an entry the most recent one.
Touched(s, p) == IF Has(s, p) THEN <<Entry(s, p)>> \o Others(s, p) ELSE s

\* evict_if_needed: room for one more is made from the back.
Evicted(s) == SubSeq(s, 1, Min({Len(s), Capacity - 1}))

\* insert_faces ignores an empty result and replaces an entry that is there.
Inserted(s, p, faces) ==
  IF faces = <<>> THEN s
  ELSE <<[key |-> p, faces |-> faces]>> \o (IF Has(s, p) THEN Others(s, p) ELSE Evicted(s))

-----------------------------------------------------------------------------
(* The analysis of one picture *)

Selected(faces) ==
  LET kept == SelectSeq(faces, LAMBDA f : f \in Passing)
  IN IF OnlyOne /\ kept # <<>> THEN <<Head(kept)>> ELSE kept

\* Nothing in the program sets the options of the selector, and as they are
\* initialised they let every face through.  (If they did not, a frame found in the
\* store would get all its faces and one that is not the selected ones.)
ASSUME SelectorAssumption ==
  \A faces \in {<<>>} \cup {FacesOf[p] : p \in Picture} : Selected(faces) = faces

\* Four rotations are tried; without a detector there are no faces.
Detected(p) == IF detector THEN FacesOf[p] ELSE <<>>

\* The same by a thread that is alone: what it returns and leaves in the store.
FacesAlone(s, p) == IF Has(s, p) THEN Entry(s, p).faces ELSE Selected(Detected(p))
StoreAlone(s, p) == IF Has(s, p) THEN Touched(s, p) ELSE Inserted(s, p, Detected(p))

Go(w, place) == at' = [at EXCEPT ![w] = place]
Finds(w, faces) == found' = [found EXCEPT ![w] = faces]

AskStore(w) ==
  /\ at[w] = "ask"
  /\ Go(w, IF Has(store, picture[w]) THEN "read" ELSE "detect")
  /\ UNCHANGED <<store, detector, picture, found, missed>>

\* A second call reads the entry.  If it has been evicted meanwhile the result is
\* empty and counts as a hit.
ReadStore(w) ==
  /\ at[w] = "read"
  /\ store' = Touched(store, picture[w])
  /\ IF Has(store, picture[w])
       THEN Finds(w, Entry(store, picture[w]).faces) /\ UNCHANGED missed
       ELSE Finds(w, <<>>) /\ missed' = missed \cup {w}
  /\ Go(w, "prepare")
  /\ UNCHANGED <<detector, picture>>

DetectFaces(w) ==
  /\ at[w] = "detect"
  /\ Finds(w, Detected(picture[w]))
  /\ Go(w, IF Detected(picture[w]) = <<>> THEN "prepare" ELSE "askAgain")
  /\ UNCHANGED <<store, detector, picture, missed>>

\* The faces are completed with what the store knows about them by now, which
\* takes two calls as well, ...
AskAgain(w) ==
  /\ at[w] = "askAgain"
  /\ Go(w, IF Has(store, picture[w]) THEN "readAgain" ELSE "insert")
  /\ UNCHANGED <<store, detector, picture, found, missed>>

ReadAgain(w) ==
  /\ at[w] = "readAgain"
  /\ store' = Touched(store, picture[w])
  /\ Go(w, "insert")
  /\ UNCHANGED <<detector, picture, found, missed>>

\* ... stored, and selected from.
InsertFaces(w) ==
  /\ at[w] = "insert"
  /\ store' = Inserted(store, picture[w], found[w])
  /\ Finds(w, Selected(found[w]))
  /\ Go(w, "prepare")
  /\ UNCHANGED <<detector, picture, missed>>

Analyse(w) ==
  AskStore(w) \/ ReadStore(w) \/ DetectFaces(w) \/ AskAgain(w) \/ ReadAgain(w) \/ InsertFaces(w)
=============================================================================
