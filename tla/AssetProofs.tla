---------------------------- MODULE AssetProofs ----------------------------
(***************************************************************************)
(* The assets a database is opened with.  The caches below the user cache  *)
(* directory, for any number of processes and files: what looks complete   *)
(* is whole while one process at a time fills a cache, and processes that  *)
(* race heal what they publish.  And the bundle, for any manifest and any  *)
(* bytes: what it serves is what its manifest says.                        *)
(***************************************************************************)
EXTENDS AssetCache, BundleFs, FiniteSetTheorems, SequenceTheorems, WellFoundedInduction, TLAPS

Contents == {"none", "torn", "short", "whole"}
Images == {"none", "stale", "torn", "whole"}

TypeOK ==
    /\ there \in [Where -> BOOLEAN]
    /\ holds \in [Where -> [Names -> Contents]]
    /\ image \in [Where -> Images]
    /\ pc \in [Procs -> Points]
    /\ i \in [Procs -> 1..Len(Files)]
    /\ todo \in [Procs -> SUBSET Names]
    /\ at \in [Procs -> Where \union {"gone"}]
    /\ short \in [Procs -> BOOLEAN]
    /\ raced \in SUBSET {"assets", "image"}
    /\ faulted \in BOOLEAN

\* An open handle follows its object: a file being written is in a directory that
\* exists, a directory that does not exist holds nothing, and the cache directory
\* a process empties is never moved back to the staging name.
HandleInv ==
    /\ \A w \in Where : ~there[w] => Empty(w)
    /\ \A p \in Procs : pc[p] = "write" /\ at[p] # "gone" => there[at[p]]
    /\ \A p \in Procs : pc[p] = "unlink dir" => at[p] # Staging

\* While nothing has died writing, whatever is torn, staged or published, is open
\* in a process that writes it.
HeldFile(w, n) == holds[w][n] = "torn" => \E p \in Procs : at[p] = w /\ Writes(p, n)
HeldImage(w) == image[w] = "torn" => \E p \in Procs : at[p] = w /\ pc[p] = "store"
TornInv ==
    ~faulted => /\ \A w \in Where, n \in Names : HeldFile(w, n)
                /\ \A w \in Where : HeldImage(w)

\* The files p has written so far, in a staging directory it alone fills.
StagedBy(p, n) == IF n = Data /\ short[p] THEN "short" ELSE "whole"
Staged(p) == \A j \in 1..(i[p] - 1) : holds[Staging][Files[j]] = StagedBy(p, Files[j])

\* While downloads have not overlapped: the cache directory is whole for good, or a
\* name is missing that every process still checking has yet to look at.
Settled == Whole /\ \A p \in Procs : pc[p] \notin Fetching
Missing(j) == holds[Dir][Files[j]] = "none"
Lacking ==
    /\ \E j \in 1..Len(Files) : Missing(j)
    /\ \A p \in Procs :
          /\ pc[p] # "read"
          /\ pc[p] = "check" => \E j \in i[p]..Len(Files) : Missing(j)
FillInv(p) ==
    /\ pc[p] \in {"get", "write"} => Staged(p)
    /\ pc[p] = "write" => at[p] = Staging /\ (i[p] = Len(Files) => ~short[p])
    /\ pc[p] \in {"replace", "unlink dir", "rename"} =>
          \A n \in Names : holds[Staging][n] = "whole"
FetchInv ==
    "assets" \notin raced =>
        /\ \A p, q \in Procs : pc[p] \in Fetching /\ pc[q] \in Fetching => p = q
        /\ Settled \/ Lacking
        /\ \A p \in Procs : FillInv(p)

\* While compilations have not overlapped, what is published was stored to its end.
CompileInv ==
    "image" \notin raced =>
        /\ \A p, q \in Procs : pc[p] \in Compiling /\ pc[q] \in Compiling => p = q
        /\ image[Dir] # "torn"
        /\ \A p \in Procs :
              /\ pc[p] = "store" => at[p] = Staging
              /\ pc[p] = "publish" => image[Staging] # "torn"

CacheInv == TypeOK /\ HandleInv /\ TornInv /\ FetchInv /\ CompileInv

LEMMA InitCacheInv == Init => CacheInv
<1> SUFFICES ASSUME Init PROVE CacheInv
  OBVIOUS
<1>1. TypeOK
  <2>1. image \in [Where -> Images]
    BY DEF Init, Images
  <2>2. i \in [Procs -> 1..Len(Files)]
    BY AssetAssumption DEF Init
  <2>3. /\ there \in [Where -> BOOLEAN]
        /\ holds \in [Where -> [Names -> Contents]]
        /\ pc \in [Procs -> Points]
    BY DEF Init, Contents, Points
  <2> QED BY <2>1, <2>2, <2>3 DEF Init, TypeOK
<1>2. HandleInv /\ TornInv /\ CompileInv
  BY DEF Init, HandleInv, TornInv, HeldFile, HeldImage, CompileInv, Empty, Where, Compiling, Dir
<1>3. FetchInv
  <2>1. 1 \in 1..Len(Files) /\ Files[1] \in Names
    BY AssetAssumption DEF Names
  <2> QED BY <2>1 DEF Init, FetchInv, FillInv, Lacking, Missing, Where, Dir, Fetching
<1> QED BY <1>1, <1>2, <1>3 DEF CacheInv

\* Where a process goes next keeps the types.
LEMMA MovesType ==
  ASSUME TypeOK, NEW p \in Procs
  PROVE  /\ \A point \in Points, k \in 1..Len(Files) : Goto(p, point, k) =>
              pc' \in [Procs -> Points] /\ i' \in [Procs -> 1..Len(Files)]
         /\ Idle(p) => /\ at' \in [Procs -> Where \union {"gone"}]
                       /\ todo' \in [Procs -> SUBSET Names]
         /\ \A point \in Points : Enter(p, point) =>
              /\ pc' \in [Procs -> Points] /\ i' \in [Procs -> 1..Len(Files)]
              /\ at' \in [Procs -> Where \union {"gone"}]
              /\ todo' \in [Procs -> SUBSET Names]
         /\ Returns(p) =>
              /\ pc' \in [Procs -> Points] /\ i' \in [Procs -> 1..Len(Files)]
              /\ at' \in [Procs -> Where \union {"gone"}]
              /\ todo' \in [Procs -> SUBSET Names]
              /\ short' \in [Procs -> BOOLEAN]
         /\ \A points : \A cache \in {"assets", "image"} : Races(p, cache, points) =>
              raced' \in SUBSET {"assets", "image"}
<1>1. \A point \in Points, k \in 1..Len(Files) : Goto(p, point, k) =>
        pc' \in [Procs -> Points] /\ i' \in [Procs -> 1..Len(Files)]
  BY DEF TypeOK, Goto
<1>2. Idle(p) => /\ at' \in [Procs -> Where \union {"gone"}]
                /\ todo' \in [Procs -> SUBSET Names]
  BY DEF TypeOK, Idle
<1>3. 1 \in 1..Len(Files) /\ "off" \in Points
  BY AssetAssumption DEF Points
<1>4. \A point \in Points : Enter(p, point) => Goto(p, point, 1) /\ Idle(p)
  BY DEF Enter
<1>5. Returns(p) => Enter(p, "off") /\ short' \in [Procs -> BOOLEAN]
  BY DEF Returns, TypeOK
<1>6. \A points : \A cache \in {"assets", "image"} : Races(p, cache, points) =>
        raced' \in SUBSET {"assets", "image"}
  BY DEF Races, TypeOK
<1> QED BY <1>1, <1>2, <1>3, <1>4, <1>5, <1>6

\* What removing a directory does, spelled out for its two uses.
LEMMA RemoveStagingDef ==
  ASSUME NEW p, RemoveStaging(p)
  PROVE  /\ pc[p] = "unlink tmp" /\ todo[p] = {}
         /\ \/ /\ there[Staging] /\ ~Empty(Staging)
               /\ Returns(p) /\ UNCHANGED there
            \/ /\ ~there[Staging] \/ Empty(Staging)
               /\ there' = [there EXCEPT ![Staging] = FALSE]
               /\ Goto(p, "mkdir", 1)
               /\ at' = [q \in Procs |-> IF q = p \/ (at[q] = Staging /\ pc[q] \notin Compiling)
                                        THEN "gone" ELSE at[q]]
               /\ UNCHANGED <<todo, short>>
         /\ UNCHANGED <<holds, image, raced, faulted>>
BY DEF RemoveStaging, RemoveDir

LEMMA RemoveOldDef ==
  ASSUME NEW p, RemoveOld(p)
  PROVE  /\ pc[p] = "unlink dir" /\ todo[p] = {}
         /\ \/ /\ there[Dir] /\ ~Empty(Dir)
               /\ Enter(p, "rename") /\ UNCHANGED <<short, there>>
            \/ /\ ~there[Dir] \/ Empty(Dir)
               /\ there' = [there EXCEPT ![Dir] = FALSE]
               /\ Goto(p, "rename", 1)
               /\ at' = [q \in Procs |-> IF q = p \/ (at[q] = Dir /\ pc[q] \notin Compiling)
                                        THEN "gone" ELSE at[q]]
               /\ UNCHANGED <<todo, short>>
         /\ UNCHANGED <<holds, image, raced, faulted>>
BY DEF RemoveOld, RemoveDir

LEMMA TypeNext ==
  ASSUME TypeOK, NEW p \in Procs, Step(p)
  PROVE  TypeOK'
<1> USE DEF disk
<1>0. /\ {"off", "check", "read", "load", "open"} \subseteq Points
      /\ Fetching \subseteq Points /\ Compiling \subseteq Points
      /\ i[p] \in 1..Len(Files) /\ 1 \in 1..Len(Files)
      /\ i[p] < Len(Files) => i[p] + 1 \in 1..Len(Files)
      /\ Dir \in Where /\ Staging \in Where
  BY AssetAssumption DEF TypeOK, Points, Where, Dir, Staging
<1>p. /\ {"clear", "unlink tmp", "mkdir", "get", "write", "replace", "unlink dir", "rename",
           "truncate", "store", "publish"} \subseteq Points
  BY DEF Points, Fetching, Compiling
<1>1. CASE Open(p)
  BY <1>0, <1>1, MovesType DEF Open, TypeOK
<1>2. CASE CheckFile(p)
  BY <1>0, <1>p, <1>2, MovesType DEF CheckFile, TypeOK
<1>3. ASSUME NEW from, NEW w \in Where, NEW unlinking \in Points, NEW then \in Points,
             RemoveAll(p, from, w, unlinking, then)
      PROVE  TypeOK'
  <2>1. CASE there[w]
    <3>1. /\ Goto(p, unlinking, 1) /\ at' = [at EXCEPT ![p] = w]
          /\ todo' = [todo EXCEPT ![p] = {n \in Names : holds[w][n] # "none"}]
      BY <1>3, <2>1 DEF RemoveAll
    <3>2. todo' \in [Procs -> SUBSET Names] /\ at' \in [Procs -> Where \union {"gone"}]
      BY <3>1 DEF TypeOK
    <3> QED BY <1>0, <1>3, <3>1, <3>2, MovesType DEF RemoveAll, TypeOK
  <2>2. CASE ~there[w]
    BY <1>3, <2>2, MovesType DEF RemoveAll, TypeOK
  <2> QED BY <2>1, <2>2
<1>4. CASE ClearStaging(p)
  BY <1>0, <1>p, <1>3, <1>4 DEF ClearStaging
<1>5. CASE ClearDir(p)
  BY <1>0, <1>p, <1>3, <1>5 DEF ClearDir
<1>6. CASE Unlink(p)
  <2>1. PICK n \in todo[p] :
          /\ todo' = [todo EXCEPT ![p] = @ \ {n}]
          /\ IF at[p] = "gone" THEN UNCHANGED <<holds, at>>
             ELSE /\ holds' = [holds EXCEPT ![at[p]][n] = "none"]
                  /\ at' = [q \in Procs |-> IF at[q] = at[p] /\ Writes(q, n) THEN "gone" ELSE at[q]]
    BY <1>6 DEF Unlink
  <2>2. n \in Names /\ todo' \in [Procs -> SUBSET Names]
    BY <2>1 DEF TypeOK
  <2>3. holds' \in [Where -> [Names -> Contents]]
    <3>1. CASE at[p] = "gone"
      BY <2>1, <3>1 DEF TypeOK
    <3>2. CASE at[p] # "gone"
      <4>1. at[p] \in Where /\ holds' = [holds EXCEPT ![at[p]][n] = "none"]
        BY <2>1, <3>2 DEF TypeOK
      <4> QED BY <2>2, <4>1 DEF TypeOK, Contents
    <3> QED BY <3>1, <3>2
  <2>4. at' \in [Procs -> Where \union {"gone"}]
    BY <2>1 DEF TypeOK
  <2> QED BY <1>6, <2>2, <2>3, <2>4 DEF Unlink, TypeOK
<1>7. CASE RemoveStaging(p)
  <2>1. /\ there' \in [Where -> BOOLEAN]
        /\ at' \in [Procs -> Where \union {"gone"}]
    BY <1>0, <1>7, RemoveStagingDef, MovesType DEF TypeOK
  <2> QED BY <1>0, <1>p, <1>7, <2>1, RemoveStagingDef, MovesType DEF TypeOK
<1>8. CASE RemoveOld(p)
  <2>1. /\ there' \in [Where -> BOOLEAN]
        /\ at' \in [Procs -> Where \union {"gone"}]
    BY <1>0, <1>p, <1>8, RemoveOldDef, MovesType DEF TypeOK
  <2> QED BY <1>0, <1>p, <1>8, <2>1, RemoveOldDef, MovesType DEF TypeOK
<1>9. CASE MkdirStaging(p)
  BY <1>0, <1>p, <1>9, MovesType DEF MkdirStaging, TypeOK
<1>10. CASE GetFile(p)
  <2>1. Files[i[p]] \in Names
    BY <1>0 DEF Names
  <2>2. holds' \in [Where -> [Names -> Contents]] /\ at' \in [Procs -> Where \union {"gone"}]
    BY <1>0, <1>10, <2>1 DEF GetFile, TypeOK, Contents
  <2>3. pc' \in [Procs -> Points] /\ short' \in [Procs -> BOOLEAN]
    BY <1>0, <1>p, <1>10 DEF GetFile, TypeOK
  <2> QED BY <1>10, <2>2, <2>3 DEF GetFile, TypeOK
<1>11. CASE WriteFile(p)
  <2>1. Files[i[p]] \in Names
    BY <1>0 DEF Names
  <2>2. holds' \in [Where -> [Names -> Contents]]
    <3>1. CASE at[p] = "gone"
      BY <1>11, <3>1 DEF WriteFile, TypeOK
    <3>2. CASE at[p] # "gone"
      <4> DEFINE c == IF Files[i[p]] = Data /\ short[p] THEN "short" ELSE "whole"
      <4>1. holds' = [holds EXCEPT ![at[p]][Files[i[p]]] = c] /\ c \in Contents
        BY <1>11, <3>2 DEF WriteFile, Contents
      <4> HIDE DEF c
      <4> QED BY <2>1, <4>1 DEF TypeOK
    <3> QED BY <3>1, <3>2
  <2>3. at' \in [Procs -> Where \union {"gone"}]
    BY <1>11 DEF WriteFile, TypeOK
  <2> QED BY <1>0, <1>p, <1>11, <2>2, <2>3, MovesType DEF WriteFile, TypeOK
<1>12. CASE FetchFails(p)
  BY <1>12, MovesType DEF FetchFails, TypeOK
<1>13. CASE RenameStaging(p)
  <2>1. CASE there[Staging] /\ ~there[Dir]
    <3>0. /\ there' = [there EXCEPT ![Dir] = TRUE, ![Staging] = FALSE]
          /\ at' = [q \in Procs |-> IF at[q] = Staging /\ pc[q] \notin Compiling
                                    THEN Dir ELSE at[q]]
      BY <1>13, <2>1 DEF RenameStaging
    <3>1. there' \in [Where -> BOOLEAN]
      BY <3>0 DEF TypeOK
    <3>4. at' \in [Procs -> Where \union {"gone"}]
      BY <1>0, <3>0 DEF TypeOK
    <3>2. [n \in Names |-> "none"] \in [Names -> Contents] /\ holds[Staging] \in [Names -> Contents]
      BY <1>0 DEF TypeOK, Contents
    <3>3. holds' \in [Where -> [Names -> Contents]]
      BY <1>13, <2>1, <3>2 DEF RenameStaging, TypeOK
    <3> QED BY <1>0, <1>13, <2>1, <3>1, <3>3, <3>4, MovesType DEF RenameStaging, TypeOK
  <2>2. CASE ~(there[Staging] /\ ~there[Dir])
    BY <1>13, <2>2, MovesType DEF RenameStaging, TypeOK
  <2> QED BY <2>1, <2>2
<1>14. CASE ReadAsset(p)
  BY <1>0, <1>14, MovesType DEF ReadAsset, TypeOK
<1>15. CASE Load(p)
  BY <1>0, <1>p, <1>15, MovesType DEF Load, TypeOK
<1>16. CASE TruncateImage(p)
  <2>1. image' \in [Where -> Images] /\ at' \in [Procs -> Where \union {"gone"}]
    BY <1>0, <1>16 DEF TruncateImage, TypeOK, Images
  <2> QED BY <1>0, <1>p, <1>16, <2>1, MovesType DEF TruncateImage, TypeOK
<1>17. CASE StoreImage(p)
  <2>1. image' \in [Where -> Images]
    BY <1>0, <1>17 DEF StoreImage, TypeOK, Images
  <2> QED BY <1>0, <1>p, <1>17, <2>1, MovesType DEF StoreImage, TypeOK
<1>18. CASE PublishImage(p)
  <2>1. image' \in [Where -> Images]
    <3>1. image[Staging] \in Images /\ "none" \in Images
      BY <1>0 DEF TypeOK, Images
    <3>2. \/ image' = image
          \/ image' = [image EXCEPT ![Dir] = image[Staging], ![Staging] = "none"]
      BY <1>18 DEF PublishImage
    <3> QED BY <3>1, <3>2 DEF TypeOK
  <2>2. at' \in [Procs -> Where \union {"gone"}]
    BY <1>0, <1>18 DEF PublishImage, TypeOK
  <2> QED BY <1>0, <1>p, <1>18, <2>1, <2>2, MovesType DEF PublishImage, TypeOK
<1>19. CASE ImageFails(p)
  BY <1>0, <1>19, MovesType DEF ImageFails, TypeOK
<1>20. CASE WriteFails(p)
  BY <1>0, <1>20, MovesType DEF WriteFails, TypeOK
<1>21. CASE Crash(p)
  <2>1. faulted' \in BOOLEAN
    BY <1>21, Zenon DEF Crash, TypeOK
  <2> QED BY <1>21, <2>1, MovesType DEF Crash, TypeOK
<1> QED BY <1>1, <1>2, <1>4, <1>5, <1>6, <1>7, <1>8, <1>9, <1>10, <1>11, <1>12, <1>13, <1>14,
           <1>15, <1>16, <1>17, <1>18, <1>19, <1>20, <1>21 DEF Step

----------------------------------------------------------------------------
(* What the steps do, entry by entry.                                      *)

QuietStep(p) ==
    \/ Open(p) \/ CheckFile(p) \/ ClearStaging(p) \/ ClearDir(p) \/ FetchFails(p)
    \/ ReadAsset(p) \/ Load(p) \/ ImageFails(p) \/ WriteFails(p) \/ Crash(p)

\* A step moves only the process that takes it.
LEMMA OthersStay ==
  ASSUME TypeOK, NEW p \in Procs, Step(p), NEW q \in Procs, q # p
  PROVE  pc'[q] = pc[q] /\ i'[q] = i[q] /\ short'[q] = short[q]
<1> USE DEF TypeOK, Goto, Idle, Enter, Returns
<1>1. CASE Open(p) \/ CheckFile(p) \/ ReadAsset(p) \/ Load(p) \/ MkdirStaging(p)
  BY <1>1 DEF Open, CheckFile, ReadAsset, Load, MkdirStaging
<1>2. CASE ClearStaging(p) \/ ClearDir(p)
  BY <1>2 DEF ClearStaging, ClearDir, RemoveAll
<1>3. CASE Unlink(p)
  BY <1>3 DEF Unlink
<1>4. CASE RemoveStaging(p)
  <2>1. Returns(p) \/ (Goto(p, "mkdir", 1) /\ UNCHANGED short)
    BY <1>4, RemoveStagingDef
  <2> QED BY <2>1
<1>5. CASE RemoveOld(p)
  <2>1. UNCHANGED short /\ (Enter(p, "rename") \/ Goto(p, "rename", 1))
    BY <1>5, RemoveOldDef
  <2> QED BY <2>1
<1>6. CASE GetFile(p) \/ WriteFile(p) \/ RenameStaging(p)
  BY <1>6 DEF GetFile, WriteFile, RenameStaging
<1>7. CASE TruncateImage(p) \/ StoreImage(p) \/ PublishImage(p) \/ ImageFails(p)
  BY <1>7 DEF TruncateImage, StoreImage, PublishImage, ImageFails
<1>8. CASE WriteFails(p) \/ Crash(p) \/ FetchFails(p)
  BY <1>8 DEF WriteFails, Crash, FetchFails
<1> QED BY <1>1, <1>2, <1>3, <1>4, <1>5, <1>6, <1>7, <1>8 DEF Step

\* A step that touches no file leaves every other handle where it is.
LEMMA QuietEffect ==
  ASSUME TypeOK, NEW p \in Procs, QuietStep(p)
  PROVE  /\ there' = there /\ holds' = holds /\ image' = image
         /\ \A q \in Procs \ {p} : at'[q] = at[q]
         /\ pc'[p] \notin {"get", "write", "replace", "store", "publish"}
         /\ pc'[p] = "unlink dir" => pc[p] = "replace" /\ at'[p] = Dir
         /\ pc'[p] = "rename" => pc[p] = "replace"
         /\ faulted' \/ (~faulted /\ pc[p] \notin {"write", "store"})
<1> USE DEF TypeOK, Goto, Idle, Enter, Returns, disk
<1>0. Dir # "gone"
  BY DEF Dir
<1>1. CASE Open(p)
  BY <1>1 DEF Open
<1>5. CASE CheckFile(p)
  <2>1. /\ UNCHANGED <<disk, faulted>> /\ pc[p] = "check"
        /\ \/ Enter(p, "clear")
           \/ Goto(p, "check", i[p] + 1) /\ at' = at
           \/ Goto(p, "read", 1) /\ at' = at
    BY <1>5 DEF CheckFile
  <2>2. /\ pc'[p] \in {"clear", "check", "read"}
        /\ \A q \in Procs \ {p} : at'[q] = at[q]
    BY <2>1
  <2> QED BY <2>1, <2>2
<1>6. CASE ReadAsset(p)
  <2>1. /\ UNCHANGED <<disk, faulted>> /\ pc[p] = "read"
        /\ \/ Enter(p, "off")
           \/ Goto(p, "read", i[p] + 1) /\ at' = at
           \/ Goto(p, "load", 1) /\ at' = at
    BY <1>6 DEF ReadAsset
  <2>2. /\ pc'[p] \in {"off", "read", "load"}
        /\ \A q \in Procs \ {p} : at'[q] = at[q]
    BY <2>1
  <2> QED BY <2>1, <2>2
<1>7. CASE Load(p)
  BY <1>7 DEF Load
<1>2. CASE ClearStaging(p)
  BY <1>2 DEF ClearStaging, RemoveAll
<1>8. CASE ClearDir(p)
  BY <1>8 DEF ClearDir, RemoveAll
<1>3. CASE FetchFails(p) \/ ImageFails(p)
  BY <1>3 DEF FetchFails, ImageFails
<1>4. CASE WriteFails(p) \/ Crash(p)
  BY <1>4 DEF WriteFails, Crash
<1> QED BY <1>1, <1>2, <1>3, <1>4, <1>5, <1>6, <1>7, <1>8 DEF QuietStep

LEMMA UnlinkEffect ==
  ASSUME TypeOK, NEW p \in Procs, Unlink(p)
  PROVE  /\ there' = there /\ image' = image /\ pc' = pc
         /\ \/ at[p] = "gone" /\ holds' = holds /\ at' = at
            \/ /\ at[p] \in Where
               /\ \E n \in Names :
                     /\ \A w \in Where, m \in Names :
                          holds'[w][m] = IF w = at[p] /\ m = n THEN "none" ELSE holds[w][m]
                     /\ \A q \in Procs :
                          at'[q] = IF at[q] = at[p] /\ Writes(q, n) THEN "gone" ELSE at[q]
         /\ UNCHANGED <<i, short, raced, faulted>>
<1>1. PICK n \in todo[p] :
        IF at[p] = "gone" THEN UNCHANGED <<holds, at>>
        ELSE /\ holds' = [holds EXCEPT ![at[p]][n] = "none"]
             /\ at' = [q \in Procs |-> IF at[q] = at[p] /\ Writes(q, n) THEN "gone" ELSE at[q]]
  BY DEF Unlink
<1>2. n \in Names /\ at[p] \in Where \union {"gone"}
  BY DEF TypeOK
<1>3. CASE at[p] = "gone"
  BY <1>1, <1>3 DEF Unlink
<1>4. CASE at[p] # "gone"
  <2>1. \A w \in Where, m \in Names :
          holds'[w][m] = IF w = at[p] /\ m = n THEN "none" ELSE holds[w][m]
    BY <1>1, <1>2, <1>4 DEF TypeOK
  <2>2. \A q \in Procs : at'[q] = IF at[q] = at[p] /\ Writes(q, n) THEN "gone" ELSE at[q]
    BY <1>1, <1>4
  <2> QED BY <1>2, <1>4, <2>1, <2>2 DEF Unlink
<1> QED BY <1>3, <1>4

LEMMA GetEffect ==
  ASSUME TypeOK, NEW p \in Procs, GetFile(p)
  PROVE  /\ pc[p] = "get" /\ pc'[p] = "write" /\ i' = i
         /\ there[Staging] /\ there' = there /\ image' = image
         /\ \A w \in Where, m \in Names :
              holds'[w][m] = IF w = Staging /\ m = Files[i[p]] THEN "torn" ELSE holds[w][m]
         /\ \A q \in Procs : at'[q] = IF q = p THEN Staging ELSE at[q]
         /\ Files[i[p]] # Data => short'[p] = short[p]
         /\ i[p] = Len(Files) => ~short[p]
         /\ UNCHANGED <<raced, faulted>>
<1>1. Files[i[p]] \in Names
  BY DEF TypeOK, Names
<1>2. \A w \in Where, m \in Names :
        holds'[w][m] = IF w = Staging /\ m = Files[i[p]] THEN "torn" ELSE holds[w][m]
  BY <1>1 DEF GetFile, TypeOK
<1> QED BY <1>2 DEF GetFile, TypeOK, Refused

LEMMA WriteEffect ==
  ASSUME TypeOK, NEW p \in Procs, WriteFile(p)
  PROVE  /\ pc[p] = "write" /\ there' = there /\ image' = image
         /\ \A w \in Where, m \in Names :
              holds'[w][m] = IF w = at[p] /\ m = Files[i[p]] THEN StagedBy(p, m) ELSE holds[w][m]
         /\ \A q \in Procs : at'[q] = IF q = p THEN "gone" ELSE at[q]
         /\ \/ i[p] < Len(Files) /\ pc'[p] = "get" /\ i'[p] = i[p] + 1
            \/ i[p] = Len(Files) /\ pc'[p] = "replace"
         /\ UNCHANGED <<short, raced, faulted>>
<1>1. Files[i[p]] \in Names /\ at[p] \in Where \union {"gone"}
  BY DEF TypeOK, Names
<1>2. \A w \in Where, m \in Names :
        holds'[w][m] = IF w = at[p] /\ m = Files[i[p]] THEN StagedBy(p, m) ELSE holds[w][m]
  <2>1. CASE at[p] = "gone"
    BY <2>1 DEF WriteFile, Where
  <2>2. CASE at[p] # "gone"
    <3>1. holds' = [holds EXCEPT ![at[p]][Files[i[p]]] = StagedBy(p, Files[i[p]])]
      BY <2>2 DEF WriteFile, StagedBy
    <3> QED BY <1>1, <2>2, <3>1 DEF TypeOK
  <2> QED BY <2>1, <2>2
<1>3. /\ \/ i[p] < Len(Files) /\ pc'[p] = "get" /\ i'[p] = i[p] + 1
         \/ i[p] = Len(Files) /\ pc'[p] = "replace"
  BY AssetAssumption DEF WriteFile, TypeOK, Goto
<1> QED BY <1>2, <1>3 DEF WriteFile, TypeOK

LEMMA RenameEffect ==
  ASSUME TypeOK, NEW p \in Procs, RenameStaging(p)
  PROVE  /\ pc[p] = "rename" /\ image' = image
         /\ \/ /\ there[Staging] /\ ~there[Dir]
               /\ there'[Dir] /\ ~there'[Staging]
               /\ \A m \in Names : holds'[Dir][m] = holds[Staging][m] /\ holds'[Staging][m] = "none"
               /\ \A q \in Procs : at'[q] = IF at[q] = Staging /\ pc[q] \notin Compiling
                                            THEN Dir ELSE at[q]
               /\ pc'[p] = "read" /\ i'[p] = 1
            \/ /\ there' = there /\ holds' = holds
               /\ \A q \in Procs \ {p} : at'[q] = at[q]
               /\ pc'[p] = "off"
         /\ UNCHANGED <<raced, faulted>>
<1>1. CASE there[Staging] /\ ~there[Dir]
  <2>1. Dir \in Where /\ Staging \in Where /\ Dir # Staging
    BY DEF Where, Dir, Staging
  <2>2. \A m \in Names : holds'[Dir][m] = holds[Staging][m] /\ holds'[Staging][m] = "none"
    <3>1. holds' = [holds EXCEPT ![Dir] = holds[Staging], ![Staging] = [n \in Names |-> "none"]]
      BY <1>1 DEF RenameStaging
    <3>2. holds'[Dir] = holds[Staging] /\ holds'[Staging] = [n \in Names |-> "none"]
      BY <2>1, <3>1 DEF TypeOK
    <3> QED BY <3>2
  <2> QED BY <1>1, <2>1, <2>2 DEF RenameStaging, TypeOK, Goto
<1>2. CASE ~(there[Staging] /\ ~there[Dir])
  BY <1>2 DEF RenameStaging, TypeOK, Returns, Enter, Goto, Idle
<1> QED BY <1>1, <1>2

LEMMA RemoveEffect ==
  ASSUME TypeOK, NEW p \in Procs, RemoveStaging(p) \/ RemoveOld(p)
  PROVE  /\ \/ pc[p] = "unlink tmp" /\ pc'[p] \in {"off", "mkdir"}
            \/ pc[p] = "unlink dir" /\ pc'[p] = "rename"
         /\ \/ there' = there /\ \A q \in Procs \ {p} : at'[q] = at[q]
            \/ \E w \in Where :
                  /\ Empty(w) \/ ~there[w]
                  /\ \A v \in Where : there'[v] <=> (v # w /\ there[v])
                  /\ \A q \in Procs :
                       at'[q] = IF q = p \/ (at[q] = w /\ pc[q] \notin Compiling)
                                THEN "gone" ELSE at[q]
         /\ UNCHANGED <<holds, image, raced, faulted>>
<1>1. CASE RemoveStaging(p)
  <2>1. pc[p] = "unlink tmp" /\ UNCHANGED <<holds, image, raced, faulted>>
    BY <1>1, RemoveStagingDef
  <2>2. CASE Returns(p) /\ UNCHANGED there
    BY <2>1, <2>2 DEF Returns, Enter, Goto, Idle, TypeOK
  <2>3. CASE ~(Returns(p) /\ UNCHANGED there)
    <3>1. /\ ~there[Staging] \/ Empty(Staging)
          /\ there' = [there EXCEPT ![Staging] = FALSE]
          /\ Goto(p, "mkdir", 1)
          /\ at' = [q \in Procs |-> IF q = p \/ (at[q] = Staging /\ pc[q] \notin Compiling)
                                    THEN "gone" ELSE at[q]]
      BY <1>1, <2>3, RemoveStagingDef
    <3>2. Staging \in Where /\ \A v \in Where : there'[v] <=> (v # Staging /\ there[v])
      BY <3>1 DEF Where, Staging, TypeOK
    <3> QED BY <2>1, <3>1, <3>2 DEF Goto, TypeOK
  <2> QED BY <2>2, <2>3
<1>2. CASE RemoveOld(p)
  <2>1. pc[p] = "unlink dir" /\ UNCHANGED <<holds, image, raced, faulted>>
    BY <1>2, RemoveOldDef
  <2>2. CASE Enter(p, "rename") /\ UNCHANGED there
    BY <2>1, <2>2 DEF Enter, Goto, Idle, TypeOK
  <2>3. CASE ~(Enter(p, "rename") /\ UNCHANGED there)
    <3>1. /\ ~there[Dir] \/ Empty(Dir)
          /\ there' = [there EXCEPT ![Dir] = FALSE]
          /\ Goto(p, "rename", 1)
          /\ at' = [q \in Procs |-> IF q = p \/ (at[q] = Dir /\ pc[q] \notin Compiling)
                                    THEN "gone" ELSE at[q]]
      BY <1>2, <2>3, RemoveOldDef
    <3>2. Dir \in Where /\ \A v \in Where : there'[v] <=> (v # Dir /\ there[v])
      BY <3>1 DEF Where, Dir, TypeOK
    <3> QED BY <2>1, <3>1, <3>2 DEF Goto, TypeOK
  <2> QED BY <2>2, <2>3
<1> QED BY <1>1, <1>2

ImageStep(p) == TruncateImage(p) \/ StoreImage(p) \/ PublishImage(p)

LEMMA ImageEffect ==
  ASSUME TypeOK, NEW p \in Procs, ImageStep(p)
  PROVE  /\ there' = there /\ holds' = holds /\ UNCHANGED <<raced, faulted>>
         /\ pc[p] \in Compiling /\ pc'[p] \in {"store", "publish", "open"}
         /\ \A q \in Procs \ {p} : pc[q] # "store" => at'[q] = at[q]
<1>1. CASE TruncateImage(p)
  BY <1>1 DEF TruncateImage, Goto, TypeOK, Compiling
<1>2. CASE StoreImage(p)
  BY <1>2 DEF StoreImage, Enter, Goto, Idle, TypeOK, Compiling
<1>3. CASE PublishImage(p)
  BY <1>3 DEF PublishImage, Goto, TypeOK, Compiling
<1> QED BY <1>1, <1>2, <1>3 DEF ImageStep

----------------------------------------------------------------------------
(* Handles and torn files.                                                 *)

LEMMA HandleNext ==
  ASSUME TypeOK, TypeOK', HandleInv, NEW p \in Procs, Step(p)
  PROVE  HandleInv'
<1> USE DEF HandleInv
<1>0. \A q \in Procs \ {p} : pc'[q] = pc[q]
  BY OthersStay
<1>d. Where = {Dir, Staging} /\ Dir # Staging /\ "gone" \notin Where
  BY DEF Where, Dir, Staging
<1>t. \A q \in Procs : at[q] \in Where \union {"gone"} /\ at'[q] \in Where \union {"gone"}
  BY DEF TypeOK
<1>1. CASE QuietStep(p)
  <2>1. /\ there' = there /\ holds' = holds
        /\ \A q \in Procs \ {p} : at'[q] = at[q]
        /\ pc'[p] # "write" /\ (pc'[p] = "unlink dir" => at'[p] = Dir)
    BY <1>1, QuietEffect
  <2>2. \A w \in Where : ~there'[w] => Empty(w)'
    BY <2>1 DEF Empty
  <2>3. \A q \in Procs : pc'[q] = "write" /\ at'[q] # "gone" => there'[at'[q]]
    BY <1>0, <1>d, <1>t, <2>1
  <2>4. \A q \in Procs : pc'[q] = "unlink dir" => at'[q] # Staging
    BY <1>0, <1>d, <1>t, <2>1
  <2> QED BY <2>2, <2>3, <2>4
<1>2. CASE Unlink(p)
  <2>1. /\ there' = there /\ pc' = pc
        /\ \A q \in Procs : at'[q] \in {at[q], "gone"}
    BY <1>2, UnlinkEffect
  <2>2. \A w \in Where, m \in Names : holds'[w][m] = "none" \/ holds'[w][m] = holds[w][m]
    <3>1. CASE at[p] = "gone"
      BY <1>2, <3>1, <1>d, UnlinkEffect
    <3>2. CASE at[p] # "gone"
      <4>1. PICK n \in Names : \A w \in Where, m \in Names :
              holds'[w][m] = IF w = at[p] /\ m = n THEN "none" ELSE holds[w][m]
        BY <1>2, <3>2, UnlinkEffect
      <4> QED BY <4>1
    <3> QED BY <3>1, <3>2
  <2>a. ASSUME NEW w \in Where, ~there'[w] PROVE Empty(w)'
    <3>1. Empty(w)
      BY <2>1, <2>a
    <3> QED BY <2>2, <3>1 DEF Empty
  <2>b. \A q \in Procs : pc'[q] = "write" /\ at'[q] # "gone" => there'[at'[q]]
    BY <1>0, <1>d, <1>t, <2>1
  <2>c. \A q \in Procs : pc'[q] = "unlink dir" => at'[q] # Staging
    BY <1>0, <1>d, <1>t, <2>1
  <2> QED BY <2>a, <2>b, <2>c
<1>3. CASE RemoveStaging(p) \/ RemoveOld(p)
  <2>1. /\ holds' = holds /\ pc'[p] \in {"off", "mkdir", "rename"}
    BY <1>3, RemoveEffect
  <2>2. CASE there' = there /\ \A q \in Procs \ {p} : at'[q] = at[q]
    <3>a. \A w \in Where : ~there'[w] => Empty(w)'
      BY <2>1, <2>2 DEF Empty
    <3>b. \A q \in Procs : pc'[q] = "write" /\ at'[q] # "gone" => there'[at'[q]]
      BY <1>0, <1>d, <1>t, <2>1, <2>2
    <3>c. \A q \in Procs : pc'[q] = "unlink dir" => at'[q] # Staging
      BY <1>0, <1>d, <1>t, <2>1, <2>2
    <3> QED BY <3>a, <3>b, <3>c
  <2>3. CASE ~(there' = there /\ \A q \in Procs \ {p} : at'[q] = at[q])
    <3>1. PICK w \in Where :
            /\ Empty(w) \/ ~there[w]
            /\ \A v \in Where : there'[v] <=> (v # w /\ there[v])
            /\ \A q \in Procs :
                 at'[q] = IF q = p \/ (at[q] = w /\ pc[q] \notin Compiling)
                          THEN "gone" ELSE at[q]
      BY <1>3, <2>3, RemoveEffect
    <3>2. \A v \in Where : ~there'[v] => Empty(v)'
      BY <2>1, <3>1 DEF Empty
    <3>3. ASSUME NEW q \in Procs, pc'[q] = "write", at'[q] # "gone" PROVE there'[at'[q]]
      <4>1. q # p /\ pc[q] = "write" /\ "write" \notin Compiling
        BY <1>0, <2>1, <3>3 DEF Compiling
      <4>2. at'[q] = at[q] /\ at[q] # w /\ at[q] \in Where
        BY <1>t, <3>1, <3>3, <4>1
      <4> QED BY <3>1, <3>3, <4>1, <4>2
    <3>4. \A q \in Procs : pc'[q] = "unlink dir" => at'[q] # Staging
      BY <1>0, <1>d, <1>t, <2>1, <3>1
    <3> QED BY <3>2, <3>3, <3>4
  <2> QED BY <2>2, <2>3
<1>4. CASE MkdirStaging(p)
  <2>1. /\ pc'[p] = "get" /\ holds' = holds /\ there' = [there EXCEPT ![Staging] = TRUE]
        /\ \A q \in Procs \ {p} : at'[q] = at[q]
    BY <1>4 DEF MkdirStaging, Enter, Goto, Idle, TypeOK
  <2>2. \A w \in Where : there'[w] <=> (w = Staging \/ there[w])
    BY <1>0, <1>d, <1>t, <2>1 DEF TypeOK
  <2>a. \A w \in Where : ~there'[w] => Empty(w)'
    BY <2>1, <2>2 DEF Empty
  <2>b. \A q \in Procs : pc'[q] = "write" /\ at'[q] # "gone" => there'[at'[q]]
    BY <1>0, <1>d, <1>t, <2>1, <2>2
  <2>c. \A q \in Procs : pc'[q] = "unlink dir" => at'[q] # Staging
    BY <1>0, <1>d, <1>t, <2>1, <2>2
  <2> QED BY <2>a, <2>b, <2>c
<1>5. CASE GetFile(p)
  <2>1. /\ there[Staging] /\ there' = there /\ pc'[p] = "write"
        /\ \A q \in Procs : at'[q] = IF q = p THEN Staging ELSE at[q]
    BY <1>5, GetEffect
  <2>2. \A w \in Where, m \in Names :
          holds'[w][m] = IF w = Staging /\ m = Files[i[p]] THEN "torn" ELSE holds[w][m]
    BY <1>5, GetEffect, Zenon
  <2>a. ASSUME NEW w \in Where, ~there'[w] PROVE Empty(w)'
    <3>1. ~there[w] /\ w # Staging
      BY <2>1, <2>a
    <3>2. \A m \in Names : holds'[w][m] = holds[w][m]
      BY <2>2, <3>1
    <3> QED BY <3>1, <3>2 DEF Empty
  <2>b. \A q \in Procs : pc'[q] = "write" /\ at'[q] # "gone" => there'[at'[q]]
    BY <1>0, <1>d, <1>t, <2>1
  <2>c. \A q \in Procs : pc'[q] = "unlink dir" => at'[q] # Staging
    BY <1>0, <1>d, <1>t, <2>1
  <2> QED BY <2>a, <2>b, <2>c
<1>6. CASE WriteFile(p)
  <2>1. /\ there' = there /\ pc[p] = "write" /\ pc'[p] \in {"get", "replace"}
        /\ \A q \in Procs : at'[q] = IF q = p THEN "gone" ELSE at[q]
    BY <1>6, WriteEffect
  <2>2. \A w \in Where, m \in Names :
          holds'[w][m] = IF w = at[p] /\ m = Files[i[p]] THEN StagedBy(p, m) ELSE holds[w][m]
    BY <1>6, WriteEffect, Zenon
  <2>3. \A w \in Where : ~there[w] => w # at[p]
    BY <1>0, <1>d, <1>t, <2>1
  <2>a. ASSUME NEW w \in Where, ~there'[w] PROVE Empty(w)'
    <3>1. ~there[w] /\ w # at[p]
      BY <2>1, <2>3, <2>a
    <3>2. \A m \in Names : holds'[w][m] = holds[w][m]
      BY <2>2, <3>1
    <3> QED BY <3>1, <3>2 DEF Empty
  <2>b. \A q \in Procs : pc'[q] = "write" /\ at'[q] # "gone" => there'[at'[q]]
    BY <1>0, <1>d, <1>t, <2>1
  <2>c. \A q \in Procs : pc'[q] = "unlink dir" => at'[q] # Staging
    BY <1>0, <1>d, <1>t, <2>1
  <2> QED BY <2>a, <2>b, <2>c
<1>7. CASE RenameStaging(p)
  <2>1. /\ pc[p] = "rename" /\ pc'[p] \in {"read", "off"}
    BY <1>7, RenameEffect
  <2>2. CASE there' = there
    <3>1. ~(~there[Dir] /\ there'[Dir])
      BY <2>2
    <3>2. holds' = holds /\ \A q \in Procs \ {p} : at'[q] = at[q]
      BY <1>7, <3>1, RenameEffect
    <3>3. \A w \in Where : ~there'[w] => Empty(w)'
      BY <2>2, <3>2 DEF Empty
    <3>4. \A q \in Procs : pc'[q] = "write" /\ at'[q] # "gone" => there'[at'[q]]
      BY <1>0, <1>d, <1>t, <2>1, <2>2, <3>2
    <3>5. \A q \in Procs : pc'[q] = "unlink dir" => at'[q] # Staging
      BY <1>0, <1>d, <1>t, <2>1, <3>2
    <3> QED BY <3>3, <3>4, <3>5
  <2>3. CASE there' # there
    <3>1. /\ ~there[Dir] /\ there'[Dir] /\ ~there'[Staging]
          /\ \A m \in Names : holds'[Staging][m] = "none"
          /\ \A q \in Procs : at'[q] = IF at[q] = Staging /\ pc[q] \notin Compiling
                                      THEN Dir ELSE at[q]
      BY <1>7, <2>3, RenameEffect
    <3>2. \A w \in Where : ~there'[w] => Empty(w)'
      BY <1>d, <3>1 DEF Empty
    <3>3. ASSUME NEW q \in Procs, pc'[q] = "write", at'[q] # "gone" PROVE there'[at'[q]]
      <4>1. pc[q] = "write" /\ "write" \notin Compiling
        BY <1>0, <2>1, <3>3 DEF Compiling
      <4>2. at[q] # Dir
        BY <1>d, <3>1, <4>1
      <4>3. at'[q] = Dir
        BY <1>d, <1>t, <3>1, <3>3, <4>1, <4>2
      <4> QED BY <3>1, <4>3
    <3>4. ASSUME NEW q \in Procs, pc'[q] = "unlink dir" PROVE at'[q] # Staging
      <4>1. pc[q] = "unlink dir"
        BY <1>0, <2>1, <3>4
      <4> QED BY <1>d, <3>1, <4>1
    <3> QED BY <3>2, <3>3, <3>4
  <2> QED BY <2>2, <2>3
<1>8. CASE ImageStep(p)
  <2>1. /\ there' = there /\ holds' = holds /\ pc'[p] \in {"store", "publish", "open"}
        /\ \A q \in Procs \ {p} : pc[q] # "store" => at'[q] = at[q]
    BY <1>8, ImageEffect
  <2>a. \A w \in Where : ~there'[w] => Empty(w)'
    BY <1>0, <1>d, <1>t, <2>1 DEF Empty
  <2>b. \A q \in Procs : pc'[q] = "write" /\ at'[q] # "gone" => there'[at'[q]]
    BY <1>0, <1>d, <1>t, <2>1
  <2>c. \A q \in Procs : pc'[q] = "unlink dir" => at'[q] # Staging
    BY <1>0, <1>d, <1>t, <2>1
  <2> QED BY <2>a, <2>b, <2>c
<1> QED BY <1>1, <1>2, <1>3, <1>4, <1>5, <1>6, <1>7, <1>8 DEF Step, QuietStep, ImageStep

LEMMA FilesHeldNext ==
  ASSUME TypeOK, HandleInv, NEW p \in Procs, Step(p), ~faulted, ~faulted',
         \A w \in Where, n \in Names : HeldFile(w, n),
         NEW v \in Where, NEW m \in Names, holds'[v][m] = "torn"
  PROVE  \E q \in Procs : at'[q] = v /\ Writes(q, m)'
<1>0. \A q \in Procs \ {p} : pc'[q] = pc[q] /\ i'[q] = i[q]
  BY OthersStay
<1>w. ASSUME holds[v][m] = "torn", pc[p] # "write",
             \A q \in Procs \ {p} : at[q] = v /\ pc[q] = "write" => at'[q] = v
      PROVE  \E q \in Procs : at'[q] = v /\ Writes(q, m)'
  <2>1. PICK q \in Procs : at[q] = v /\ Writes(q, m)
    BY <1>w DEF HeldFile
  <2>2. q # p /\ at'[q] = v
    BY <1>w, <2>1 DEF Writes
  <2> QED BY <1>0, <2>1, <2>2 DEF Writes
<1>1. CASE QuietStep(p)
  BY <1>1, <1>w, QuietEffect
<1>2. CASE Unlink(p)
  <2>1. pc' = pc /\ i' = i
    BY <1>2, UnlinkEffect
  <2>2. CASE at[p] = "gone"
    <3>1. holds' = holds /\ at' = at
      BY <1>2, <2>2, UnlinkEffect DEF Where
    <3> QED BY <2>1, <3>1 DEF HeldFile, Writes
  <2>3. CASE at[p] # "gone"
    <3>1. PICK n \in Names :
            /\ \A w \in Where, k \in Names :
                 holds'[w][k] = IF w = at[p] /\ k = n THEN "none" ELSE holds[w][k]
            /\ \A q \in Procs :
                 at'[q] = IF at[q] = at[p] /\ Writes(q, n) THEN "gone" ELSE at[q]
      BY <1>2, <2>3, UnlinkEffect
    <3>2. holds[v][m] = "torn" /\ ~(v = at[p] /\ m = n)
      BY <3>1
    <3>3. PICK q \in Procs : at[q] = v /\ Writes(q, m)
      BY <3>2 DEF HeldFile
    <3>4. ~(at[q] = at[p] /\ Writes(q, n))
      BY <3>2, <3>3 DEF Writes
    <3>5. at'[q] = v
      BY <3>1, <3>3, <3>4
    <3> QED BY <2>1, <3>3, <3>5 DEF Writes
  <2> QED BY <2>2, <2>3
<1>3. CASE RemoveStaging(p) \/ RemoveOld(p)
  <2>1. holds[v][m] = "torn" /\ pc[p] # "write"
    BY <1>3, RemoveEffect
  <2>2. ~Empty(v)
    BY <2>1 DEF Empty
  <2>3. \A q \in Procs \ {p} : at[q] = v => at'[q] = v
    <3>1. CASE there' = there /\ \A q \in Procs \ {p} : at'[q] = at[q]
      BY <3>1
    <3>2. CASE ~(there' = there /\ \A q \in Procs \ {p} : at'[q] = at[q])
      <4>1. PICK w \in Where :
              /\ Empty(w) \/ ~there[w]
              /\ \A u \in Where : there'[u] <=> (u # w /\ there[u])
              /\ \A q \in Procs :
                   at'[q] = IF q = p \/ (at[q] = w /\ pc[q] \notin Compiling)
                            THEN "gone" ELSE at[q]
        BY <1>3, <3>2, RemoveEffect
      <4>2. w # v
        BY <2>2, <4>1 DEF HandleInv
      <4> QED BY <4>1, <4>2
    <3> QED BY <3>1, <3>2
  <2> QED BY <1>w, <2>1, <2>3
<1>4. CASE MkdirStaging(p)
  <2>1. holds' = holds /\ pc[p] = "mkdir" /\ \A q \in Procs \ {p} : at'[q] = at[q]
    BY <1>4 DEF MkdirStaging, Enter, Idle, TypeOK
  <2> QED BY <1>w, <2>1
<1>5. CASE GetFile(p)
  <2>1. /\ pc[p] = "get" /\ pc'[p] = "write" /\ i' = i
        /\ \A q \in Procs : at'[q] = IF q = p THEN Staging ELSE at[q]
    BY <1>5, GetEffect
  <2>2. CASE v = Staging /\ m = Files[i[p]]
    BY <2>1, <2>2 DEF Writes
  <2>3. CASE ~(v = Staging /\ m = Files[i[p]])
    <3>1. holds'[v][m] = holds[v][m]
      BY <1>5, <2>3, GetEffect
    <3> QED BY <1>w, <2>1, <3>1
  <2> QED BY <2>2, <2>3
<1>6. CASE WriteFile(p)
  <2>1. pc[p] = "write" /\ \A q \in Procs : at'[q] = IF q = p THEN "gone" ELSE at[q]
    BY <1>6, WriteEffect
  <2>2. holds'[v][m] = IF v = at[p] /\ m = Files[i[p]] THEN StagedBy(p, m) ELSE holds[v][m]
    BY <1>6, WriteEffect
  <2>3. holds[v][m] = "torn" /\ ~(v = at[p] /\ m = Files[i[p]])
    BY <2>2 DEF StagedBy
  <2>4. PICK q \in Procs : at[q] = v /\ Writes(q, m)
    BY <2>3 DEF HeldFile
  <2>5. q # p
    BY <2>3, <2>4 DEF Writes
  <2> QED BY <1>0, <2>1, <2>4, <2>5 DEF Writes
<1>7. CASE RenameStaging(p)
  <2>1. pc[p] = "rename"
    BY <1>7, RenameEffect
  <2>2. CASE holds' = holds /\ \A q \in Procs \ {p} : at'[q] = at[q]
    BY <1>w, <2>1, <2>2
  <2>3. CASE ~(holds' = holds /\ \A q \in Procs \ {p} : at'[q] = at[q])
    <3>1. /\ \A k \in Names : holds'[Dir][k] = holds[Staging][k] /\ holds'[Staging][k] = "none"
          /\ \A q \in Procs : at'[q] = IF at[q] = Staging /\ pc[q] \notin Compiling
                                      THEN Dir ELSE at[q]
      BY <1>7, <2>3, RenameEffect
    <3>2. v = Dir /\ holds[Staging][m] = "torn" /\ Staging \in Where
      BY <3>1 DEF Where, Dir, Staging
    <3>3. PICK q \in Procs : at[q] = Staging /\ Writes(q, m)
      BY <3>2 DEF HeldFile
    <3>4. at'[q] = v /\ q # p
      BY <2>1, <3>1, <3>2, <3>3 DEF Writes, Compiling
    <3> QED BY <1>0, <3>3, <3>4 DEF Writes
  <2> QED BY <2>2, <2>3
<1>8. CASE ImageStep(p)
  <2>1. holds' = holds /\ pc[p] # "write" /\ \A q \in Procs \ {p} : pc[q] # "store" => at'[q] = at[q]
    BY <1>8, ImageEffect DEF Compiling
  <2> QED BY <1>w, <2>1
<1> QED BY <1>1, <1>2, <1>3, <1>4, <1>5, <1>6, <1>7, <1>8 DEF Step, QuietStep, ImageStep

LEMMA ImagesHeldNext ==
  ASSUME TypeOK, HandleInv, NEW p \in Procs, Step(p), ~faulted, ~faulted',
         \A w \in Where : HeldImage(w), NEW v \in Where, image'[v] = "torn"
  PROVE  \E q \in Procs : at'[q] = v /\ pc'[q] = "store"
<1>0. \A q \in Procs \ {p} : pc'[q] = pc[q]
  BY OthersStay
<1>d. Where = {Dir, Staging} /\ Dir # Staging /\ Dir \in Where /\ Staging \in Where
  BY DEF Where, Dir, Staging
<1>w. ASSUME image[v] = "torn", pc[p] # "store",
             \A q \in Procs \ {p} : at[q] = v /\ pc[q] = "store" => at'[q] = v
      PROVE  \E q \in Procs : at'[q] = v /\ pc'[q] = "store"
  <2>1. PICK q \in Procs : at[q] = v /\ pc[q] = "store"
    BY <1>w DEF HeldImage
  <2> QED BY <1>0, <1>w, <2>1
<1>1. CASE QuietStep(p)
  BY <1>1, <1>w, QuietEffect
<1>2. CASE Unlink(p)
  <2>1. image' = image /\ pc[p] # "store"
    BY <1>2, UnlinkEffect DEF Unlink
  <2>2. \A q \in Procs : pc[q] = "store" => at'[q] = at[q]
    BY <1>2, UnlinkEffect DEF Writes
  <2> QED BY <1>w, <2>1, <2>2
<1>3. CASE RemoveStaging(p) \/ RemoveOld(p)
  <2>1. image' = image /\ pc[p] # "store"
    BY <1>3, RemoveEffect
  <2>2. \A q \in Procs \ {p} : pc[q] = "store" => at'[q] = at[q]
    BY <1>3, RemoveEffect DEF Compiling
  <2> QED BY <1>w, <2>1, <2>2
<1>4. CASE MkdirStaging(p)
  <2>1. image' = image /\ pc[p] = "mkdir" /\ \A q \in Procs \ {p} : at'[q] = at[q]
    BY <1>4 DEF MkdirStaging, Enter, Idle, TypeOK
  <2> QED BY <1>w, <2>1
<1>5. CASE GetFile(p)
  <2>1. image' = image /\ pc[p] = "get" /\ \A q \in Procs \ {p} : at'[q] = at[q]
    BY <1>5, GetEffect
  <2> QED BY <1>w, <2>1
<1>6. CASE WriteFile(p)
  <2>1. image' = image /\ pc[p] = "write" /\ \A q \in Procs \ {p} : at'[q] = at[q]
    BY <1>6, WriteEffect
  <2> QED BY <1>w, <2>1
<1>7. CASE RenameStaging(p)
  <2>1. image' = image /\ pc[p] = "rename"
    BY <1>7, RenameEffect
  <2>2. \A q \in Procs \ {p} : pc[q] = "store" => at'[q] = at[q]
    BY <1>7, RenameEffect DEF Compiling
  <2> QED BY <1>w, <2>1, <2>2
<1>8. CASE TruncateImage(p)
  <2>1. /\ pc[p] = "truncate" /\ pc'[p] = "store" /\ at' = [at EXCEPT ![p] = Staging]
        /\ image' = [image EXCEPT ![Staging] = "torn"]
    BY <1>8 DEF TruncateImage, Goto, TypeOK
  <2>2. at'[p] = Staging /\ \A q \in Procs \ {p} : at'[q] = at[q]
    BY <2>1 DEF TypeOK
  <2>3. v # Staging => image[v] = "torn"
    BY <1>d, <2>1 DEF TypeOK
  <2> QED BY <1>w, <2>1, <2>2, <2>3
<1>9. CASE StoreImage(p)
  <2>1. /\ pc[p] = "store" /\ \A q \in Procs \ {p} : at'[q] = at[q]
        /\ image' = IF at[p] = "gone" THEN image ELSE [image EXCEPT ![at[p]] = "whole"]
    BY <1>9 DEF StoreImage, Enter, Idle, TypeOK
  <2>2. image[v] = "torn" /\ at[p] # v
    BY <1>d, <2>1 DEF TypeOK, Where
  <2>3. PICK q \in Procs : at[q] = v /\ pc[q] = "store"
    BY <2>2 DEF HeldImage
  <2> QED BY <1>0, <2>1, <2>2, <2>3
<1>10. CASE PublishImage(p)
  <2>1. pc[p] = "publish"
    BY <1>10 DEF PublishImage
  <2>2. CASE image[Staging] = "none"
    BY <1>10, <1>w, <2>1, <2>2 DEF PublishImage
  <2>3. CASE image[Staging] # "none"
    <3>1. /\ image' = [image EXCEPT ![Dir] = image[Staging], ![Staging] = "none"]
          /\ \A q \in Procs : at'[q] = IF pc[q] # "store" THEN at[q]
                                      ELSE IF at[q] = Staging THEN Dir ELSE "gone"
      BY <1>10, <2>3 DEF PublishImage
    <3>2. v = Dir /\ image[Staging] = "torn"
      BY <1>d, <3>1 DEF TypeOK
    <3>3. PICK q \in Procs : at[q] = Staging /\ pc[q] = "store"
      BY <1>d, <3>2 DEF HeldImage
    <3> QED BY <1>0, <2>1, <3>1, <3>2, <3>3
  <2> QED BY <2>2, <2>3
<1> QED BY <1>1, <1>2, <1>3, <1>4, <1>5, <1>6, <1>7, <1>8, <1>9, <1>10 DEF Step, QuietStep

LEMMA TornNext ==
  ASSUME TypeOK, HandleInv, TornInv, NEW p \in Procs, Step(p)
  PROVE  TornInv'
<1>1. faulted' \/ ~faulted
  <2>1. CASE QuietStep(p)
    BY <2>1, QuietEffect
  <2>2. CASE ImageStep(p)
    BY <2>2, ImageEffect DEF TypeOK
  <2>3. CASE Unlink(p) \/ MkdirStaging(p) \/ GetFile(p) \/ WriteFile(p) \/ RenameStaging(p)
    BY <2>3 DEF Unlink, MkdirStaging, GetFile, WriteFile, RenameStaging
  <2>4. CASE RemoveStaging(p) \/ RemoveOld(p)
    BY <2>4, RemoveEffect
  <2> QED BY <2>1, <2>2, <2>3, <2>4 DEF Step, QuietStep, ImageStep
<1>2. ASSUME ~faulted', NEW w \in Where, NEW n \in Names PROVE HeldFile(w, n)'
  BY <1>1, <1>2, FilesHeldNext DEF TornInv, HeldFile
<1>3. ASSUME ~faulted', NEW w \in Where PROVE HeldImage(w)'
  BY <1>1, <1>3, ImagesHeldNext DEF TornInv, HeldImage
<1> QED BY <1>2, <1>3 DEF TornInv

----------------------------------------------------------------------------
(* One process at a time.                                                  *)

\* Two processes that have filled a cache together have done so for good.
LEMMA RacedStays ==
  ASSUME NEW p \in Procs, Step(p)
  PROVE  raced \subseteq raced'
<1>1. CASE Load(p) \/ CheckFile(p)
  BY <1>1 DEF Load, CheckFile, Races
<1>2. CASE RemoveStaging(p)
  BY <1>2, RemoveStagingDef
<1>3. CASE RemoveOld(p)
  BY <1>3, RemoveOldDef
<1> QED BY <1>1, <1>2, <1>3 DEF Step, Open, ClearStaging, ClearDir, RemoveAll, Unlink,
      MkdirStaging, GetFile, WriteFile, FetchFails, RenameStaging, ReadAsset, TruncateImage,
      StoreImage, PublishImage, ImageFails, WriteFails, Crash

\* A step outside compileCached changes no image and no handle of a process that stores
\* one.
LEMMA OutsideCompile ==
  ASSUME TypeOK, NEW p \in Procs, Step(p), ~ImageStep(p), ~Load(p)
  PROVE  /\ image' = image /\ pc'[p] \notin Compiling
         /\ \A q \in Procs \ {p} : pc[q] = "store" => at'[q] = at[q]
<1> USE DEF Compiling, Fetching
<1>1. CASE QuietStep(p)
  <2>1. image' = image /\ pc'[p] \notin {"store", "publish"} /\ \A q \in Procs \ {p} : at'[q] = at[q]
    BY <1>1, QuietEffect
  <2>2. pc'[p] # "truncate"
    BY <1>1 DEF QuietStep, Open, CheckFile, ClearStaging, ClearDir, RemoveAll, FetchFails, ReadAsset,
       ImageFails, WriteFails, Crash, Returns, Enter, Goto, TypeOK
  <2> QED BY <2>1, <2>2
<1>2. CASE Unlink(p)
  <2>1. image' = image /\ pc' = pc /\ pc[p] \in {"unlink tmp", "unlink dir"}
    BY <1>2, UnlinkEffect DEF Unlink
  <2>2. \A q \in Procs : pc[q] = "store" => at'[q] = at[q]
    BY <1>2, UnlinkEffect DEF Writes
  <2> QED BY <2>1, <2>2
<1>3. CASE RemoveStaging(p) \/ RemoveOld(p)
  <2>1. image' = image /\ pc'[p] \in {"off", "mkdir", "rename"}
    BY <1>3, RemoveEffect
  <2>2. \A q \in Procs \ {p} : pc[q] = "store" => at'[q] = at[q]
    BY <1>3, RemoveEffect
  <2> QED BY <2>1, <2>2
<1>4. CASE MkdirStaging(p)
  BY <1>4 DEF MkdirStaging, Enter, Goto, Idle, TypeOK
<1>5. CASE GetFile(p)
  BY <1>5, GetEffect
<1>6. CASE WriteFile(p)
  <2>1. pc'[p] \in {"get", "replace"}
    BY <1>6, WriteEffect
  <2>2. image' = image /\ \A q \in Procs \ {p} : at'[q] = at[q]
    BY <1>6, WriteEffect
  <2> QED BY <2>1, <2>2
<1>7. CASE RenameStaging(p)
  <2>1. image' = image /\ pc'[p] \in {"read", "off"}
    BY <1>7, RenameEffect
  <2>2. \A q \in Procs \ {p} : pc[q] = "store" => at'[q] = at[q]
    BY <1>7, RenameEffect
  <2> QED BY <2>1, <2>2
<1> QED BY <1>1, <1>2, <1>3, <1>4, <1>5, <1>6, <1>7 DEF Step, QuietStep, ImageStep

LEMMA CompileNext ==
  ASSUME TypeOK, CompileInv, NEW p \in Procs, Step(p)
  PROVE  CompileInv'
<1> SUFFICES ASSUME "image" \notin raced'
             PROVE  /\ \A q, r \in Procs : pc'[q] \in Compiling /\ pc'[r] \in Compiling => q = r
                    /\ image'[Dir] # "torn"
                    /\ \A q \in Procs :
                          /\ pc'[q] = "store" => at'[q] = Staging
                          /\ pc'[q] = "publish" => image'[Staging] # "torn"
  BY DEF CompileInv
<1>1. /\ \A q, r \in Procs : pc[q] \in Compiling /\ pc[r] \in Compiling => q = r
      /\ image[Dir] # "torn"
      /\ \A q \in Procs : pc[q] = "store" => at[q] = Staging
      /\ \A q \in Procs : pc[q] = "publish" => image[Staging] # "torn"
  BY RacedStays DEF CompileInv
<1>2. \A q \in Procs \ {p} : pc'[q] = pc[q]
  BY OthersStay
<1>3. /\ "store" \in Compiling /\ "publish" \in Compiling /\ "truncate" \in Compiling
      /\ Dir \in Where /\ Staging \in Where /\ Dir # Staging /\ Staging # "gone"
  BY DEF Compiling, Where, Dir, Staging
<1>4. CASE ~ImageStep(p) /\ ~Load(p)
  <2>1. /\ image' = image /\ pc'[p] \notin Compiling
        /\ \A q \in Procs \ {p} : pc[q] = "store" => at'[q] = at[q]
    BY <1>4, OutsideCompile
  <2>2. \A q, r \in Procs : pc'[q] \in Compiling /\ pc'[r] \in Compiling => q = r
    BY <1>1, <1>2, <2>1
  <2>3. ASSUME NEW q \in Procs, pc'[q] = "store" PROVE at'[q] = Staging
    <3>1. q # p /\ pc[q] = "store"
      BY <1>2, <1>3, <2>1, <2>3
    <3>2. at'[q] = at[q] /\ at[q] = Staging
      BY <1>1, <2>1, <3>1
    <3> QED BY <3>2
  <2>4. \A q \in Procs : pc'[q] = "publish" => image'[Staging] # "torn"
    BY <1>1, <1>2, <1>3, <2>1
  <2> QED BY <1>1, <2>1, <2>2, <2>3, <2>4
<1>5. CASE Load(p)
  <2>1. image' = image /\ pc'[p] \in {"open", "truncate"} /\ \A q \in Procs \ {p} : at'[q] = at[q]
    BY <1>5 DEF Load, Enter, Goto, Idle, disk, TypeOK
  <2>2. pc'[p] = "truncate" => \A q \in Procs \ {p} : pc[q] \notin Compiling
    BY <1>5 DEF Load, Enter, Goto, Races, Others, TypeOK
  <2>3. "open" \notin Compiling
    BY DEF Compiling
  <2>4. \A q, r \in Procs : pc'[q] \in Compiling /\ pc'[r] \in Compiling => q = r
    BY <1>1, <1>2, <2>1, <2>2, <2>3
  <2>5. ASSUME NEW q \in Procs, pc'[q] = "store" PROVE at'[q] = Staging
    <3>1. q # p /\ pc[q] = "store"
      BY <1>2, <1>3, <2>1, <2>5
    <3>2. at'[q] = at[q] /\ at[q] = Staging
      BY <1>1, <2>1, <3>1
    <3> QED BY <3>2
  <2>6. \A q \in Procs : pc'[q] = "publish" => image'[Staging] # "torn"
    BY <1>1, <1>2, <2>1
  <2> QED BY <1>1, <2>1, <2>4, <2>5, <2>6
<1>6. CASE ImageStep(p)
  <2>1. \A q \in Procs \ {p} : pc'[q] \notin Compiling
    BY <1>1, <1>2, <1>6, ImageEffect
  <2> SUFFICES /\ image'[Dir] # "torn"
               /\ pc'[p] = "store" => at'[p] = Staging
               /\ pc'[p] = "publish" => image'[Staging] # "torn"
    BY <1>3, <2>1
  <2>2. CASE TruncateImage(p)
    BY <1>1, <1>3, <2>2 DEF TruncateImage, Goto, TypeOK
  <2>3. CASE StoreImage(p)
    <3>1. at[p] = Staging /\ pc'[p] = "publish"
      <4>1. pc[p] = "store" /\ pc' = [pc EXCEPT ![p] = "publish"]
        BY <2>3 DEF StoreImage, Enter, Goto
      <4>2. pc'[p] = "publish"
        BY <4>1 DEF TypeOK
      <4> QED BY <1>1, <4>1, <4>2
    <3> QED BY <1>1, <1>3, <2>3, <3>1 DEF StoreImage, TypeOK
  <2>4. CASE PublishImage(p)
    <3>1. image[Staging] # "torn" /\ pc'[p] = "open"
      BY <1>1, <2>4 DEF PublishImage, Goto, TypeOK
    <3> QED BY <1>1, <1>3, <2>4, <3>1 DEF PublishImage, TypeOK
  <2> QED BY <1>6, <2>2, <2>3, <2>4 DEF ImageStep
<1> QED BY <1>4, <1>5, <1>6

\* A whole cache directory is left alone.
LEMMA SettledNext ==
  ASSUME TypeOK, Settled, NEW p \in Procs, Step(p)
  PROVE  holds' = holds /\ pc'[p] \notin Fetching
<1>1. /\ pc[p] \notin Fetching
      /\ holds[Dir][Files[i[p]]] # "none"
  <2>1. i[p] \in 1..Len(Files)
    BY DEF TypeOK
  <2>2. Files[i[p]] \in Names
    BY <2>1 DEF Names
  <2> QED BY <2>2 DEF Settled, Whole
<1> USE DEF Fetching, Compiling, disk, TypeOK, Enter, Goto, Returns
<1>2. CASE Open(p) \/ Load(p) \/ ImageFails(p) \/ WriteFails(p) \/ Crash(p)
  BY <1>1, <1>2 DEF Open, Load, ImageFails, WriteFails, Crash
<1>3. CASE CheckFile(p)
  BY <1>1, <1>3 DEF CheckFile
<1>4. CASE ReadAsset(p)
  BY <1>1, <1>4 DEF ReadAsset
<1>5. CASE ImageStep(p)
  BY <1>5, ImageEffect
<1>6. ~(ClearStaging(p) \/ ClearDir(p) \/ Unlink(p) \/ MkdirStaging(p) \/ GetFile(p) \/ WriteFile(p)
         \/ FetchFails(p) \/ RenameStaging(p))
  BY <1>1 DEF ClearStaging, ClearDir, RemoveAll, Unlink, MkdirStaging, GetFile, WriteFile, FetchFails,
     RenameStaging
<1>7. ~(RemoveStaging(p) \/ RemoveOld(p))
  BY <1>1, RemoveEffect
<1> QED BY <1>2, <1>3, <1>4, <1>5, <1>6, <1>7 DEF Step, ImageStep

\* A process that does not fill the cache changes no file; it starts to only when it
\* finds a name missing.
LEMMA OutsideFetch ==
  ASSUME TypeOK, Lacking, NEW p \in Procs, pc[p] \notin Fetching, Step(p)
  PROVE  /\ holds' = holds
         /\ \A q \in Procs \ {p} : pc[q] # "store" => at'[q] = at[q]
         /\ pc'[p] # "read"
         /\ pc'[p] = "check" => \E j \in i'[p]..Len(Files) : Missing(j)
         /\ pc'[p] \in Fetching => pc'[p] = "clear" /\ Races(p, "assets", Fetching)
<1>d. i[p] \in 1..Len(Files) /\ Len(Files) \in Nat
  BY AssetAssumption DEF TypeOK
<1>e. \A j \in i[p]..Len(Files) :
        j # i[p] => j \in (i[p] + 1)..Len(Files) /\ i[p] < Len(Files)
  BY <1>d
<1> USE DEF Fetching, Compiling, disk, TypeOK, Enter, Goto, Returns, Idle
<1>1. CASE Open(p)
  <2>1. /\ holds' = holds /\ pc'[p] = "check" /\ i'[p] = 1
        /\ \A q \in Procs \ {p} : at'[q] = at[q]
    BY <1>1 DEF Open
  <2> QED BY <2>1 DEF Lacking
<1>2. CASE Load(p) \/ ImageFails(p) \/ WriteFails(p) \/ Crash(p)
  BY <1>2 DEF Load, ImageFails, WriteFails, Crash
<1>3. CASE CheckFile(p)
  <2>1. PICK j \in i[p]..Len(Files) : Missing(j)
    BY <1>3 DEF Lacking, CheckFile
  <2>2. CASE Missing(i[p])
    BY <1>3, <2>2 DEF CheckFile, Missing
  <2>3. CASE ~Missing(i[p])
    <3>0. j # i[p]
      BY <2>1, <2>3
    <3>1. j \in (i[p] + 1)..Len(Files)
      BY <1>e, <2>1, <3>0
    <3>2. i[p] < Len(Files)
      BY <1>e, <2>1, <3>0
    <3>3. /\ holds' = holds /\ at' = at /\ pc'[p] = "check" /\ i'[p] = i[p] + 1
      BY <1>3, <2>3, <3>2 DEF CheckFile, Missing
    <3> QED BY <2>1, <3>1, <3>3
  <2> QED BY <2>2, <2>3
<1>4. ~ReadAsset(p)
  BY DEF ReadAsset, Lacking
<1>5. CASE ImageStep(p)
  BY <1>5, ImageEffect
<1>6. ~(ClearStaging(p) \/ ClearDir(p) \/ Unlink(p) \/ MkdirStaging(p) \/ GetFile(p) \/ WriteFile(p)
         \/ FetchFails(p) \/ RenameStaging(p))
  BY DEF ClearStaging, ClearDir, RemoveAll, Unlink, MkdirStaging, GetFile, WriteFile, FetchFails,
     RenameStaging
<1>7. ~(RemoveStaging(p) \/ RemoveOld(p))
  BY RemoveEffect
<1> QED BY <1>1, <1>2, <1>3, <1>4, <1>5, <1>6, <1>7 DEF Step, ImageStep

\* The process that fills the cache on its own either goes on, with nothing added to the
\* cache directory, or renames a whole staging directory into place.
LEMMA FillNext ==
  ASSUME TypeOK, HandleInv, NEW p \in Procs, pc[p] \in Fetching, FillInv(p), Step(p)
  PROVE  /\ FillInv(p)'
         /\ \/ /\ pc'[p] \notin {"read", "check"}
               /\ \A n \in Names : holds[Dir][n] = "none" => holds'[Dir][n] = "none"
            \/ /\ pc'[p] = "read" /\ Whole'
<1>d. /\ Dir \in Where /\ Staging \in Where /\ Dir # Staging /\ Staging # "gone"
      /\ \A j \in 1..Len(Files) : Files[j] \in Names
      /\ \A n \in Names : \E j \in 1..Len(Files) : n = Files[j]
      /\ i[p] \in 1..Len(Files) /\ Len(Files) \in Nat
  <2>1. i[p] \in 1..Len(Files) /\ Len(Files) \in Nat
    BY AssetAssumption DEF TypeOK
  <2>2. /\ \A j \in 1..Len(Files) : Files[j] \in Names
        /\ \A n \in Names : \E j \in 1..Len(Files) : n = Files[j]
    BY DEF Names
  <2> QED BY <2>1, <2>2 DEF Where, Dir, Staging
<1>f. pc[p] \in {"clear", "unlink tmp", "mkdir", "get", "write", "replace", "unlink dir", "rename"}
  BY DEF Fetching
<1>1. CASE ClearStaging(p) \/ ClearDir(p) \/ FetchFails(p) \/ WriteFails(p) \/ Crash(p)
  <2>1. holds' = holds /\ pc'[p] \notin {"get", "write", "replace"}
    BY <1>1, QuietEffect DEF QuietStep
  <2>2. pc'[p] \notin {"read", "check"}
    BY <1>1 DEF ClearStaging, ClearDir, RemoveAll, FetchFails, WriteFails, Crash, Returns, Enter, Goto,
       TypeOK
  <2>3. pc'[p] \in {"unlink dir", "rename"} => pc[p] = "replace"
    BY <1>1, QuietEffect DEF QuietStep
  <2> QED BY <2>1, <2>2, <2>3 DEF FillInv
<1>2. CASE Unlink(p)
  <2>1. pc' = pc /\ i' = i /\ pc[p] \in {"unlink tmp", "unlink dir"}
    BY <1>2, UnlinkEffect DEF Unlink
  <2>2. \A w \in Where, n \in Names :
          holds'[w][n] = holds[w][n] \/ (w = at[p] /\ holds'[w][n] = "none")
    BY <1>2, UnlinkEffect
  <2>3. pc[p] = "unlink dir" => at[p] # Staging
    BY DEF HandleInv
  <2>4. FillInv(p)'
    BY <1>d, <2>1, <2>2, <2>3 DEF FillInv
  <2> QED BY <1>d, <2>1, <2>2, <2>4
<1>3. CASE RemoveStaging(p) \/ RemoveOld(p)
  <2>1. holds' = holds
    BY <1>3, RemoveEffect
  <2>2. \/ pc'[p] \in {"off", "mkdir"}
        \/ pc[p] = "unlink dir" /\ pc'[p] = "rename"
    BY <1>3, RemoveEffect
  <2> QED BY <2>1, <2>2 DEF FillInv
<1>4. CASE MkdirStaging(p)
  <2>1. holds' = holds /\ pc'[p] = "get" /\ i'[p] = 1
    BY <1>4 DEF MkdirStaging, Enter, Goto, TypeOK
  <2>2. Staged(p)'
    BY <2>1 DEF Staged
  <2> QED BY <2>1, <2>2 DEF FillInv
<1>5. CASE GetFile(p)
  <2>1. /\ pc[p] = "get" /\ pc'[p] = "write" /\ i' = i /\ at'[p] = Staging
        /\ Files[i[p]] # Data => short'[p] = short[p]
        /\ i[p] = Len(Files) => ~short[p]
    BY <1>5, GetEffect
  <2>2. \A w \in Where, m \in Names :
          holds'[w][m] = IF w = Staging /\ m = Files[i[p]] THEN "torn" ELSE holds[w][m]
    BY <1>5, GetEffect
  <2>3. Staged(p)'
    <3> SUFFICES ASSUME NEW j \in 1..(i[p] - 1)
                 PROVE  holds'[Staging][Files[j]] = StagedBy(p, Files[j])'
      BY <2>1 DEF Staged
    <3>1. j \in 1..Len(Files) /\ j # i[p]
      BY <1>d
    <3>2. Files[j] # Files[i[p]]
      BY <1>d, <3>1, AssetAssumption
    <3>3. holds'[Staging][Files[j]] = holds[Staging][Files[j]]
      BY <1>d, <2>2, <3>1, <3>2
    <3>4. holds[Staging][Files[j]] = StagedBy(p, Files[j])
      BY <2>1 DEF FillInv, Staged
    <3>5. Files[j] = Data => short'[p] = short[p]
      BY <2>1, <3>2
    <3> QED BY <3>3, <3>4, <3>5 DEF StagedBy
  <2>4. i'[p] = Len(Files) => ~short'[p]
    BY <2>1, AssetAssumption
  <2>5. FillInv(p)'
    BY <2>1, <2>3, <2>4 DEF FillInv
  <2>6. \A n \in Names : holds'[Dir][n] = holds[Dir][n]
    BY <1>d, <2>2
  <2> QED BY <2>1, <2>5, <2>6
<1>6. CASE WriteFile(p)
  <2>1. /\ pc[p] = "write" /\ at[p] = Staging /\ Staged(p) /\ (i[p] = Len(Files) => ~short[p])
    BY <1>6, WriteEffect DEF FillInv
  <2>2. \A w \in Where, m \in Names :
          holds'[w][m] = IF w = Staging /\ m = Files[i[p]] THEN StagedBy(p, m) ELSE holds[w][m]
    BY <1>6, <2>1, WriteEffect
  <2>3. \A j \in 1..i[p] : holds'[Staging][Files[j]] = StagedBy(p, Files[j])
    <3> TAKE j \in 1..i[p]
    <3>1. Files[j] \in Names
      BY <1>d
    <3>2. CASE Files[j] = Files[i[p]]
      BY <1>d, <2>2, <3>1, <3>2
    <3>3. CASE Files[j] # Files[i[p]]
      BY <1>d, <2>1, <2>2, <3>1, <3>3 DEF Staged
    <3> QED BY <3>2, <3>3
  <2>4. short' = short
    BY <1>6, WriteEffect
  <2>5. CASE i[p] < Len(Files) /\ pc'[p] = "get" /\ i'[p] = i[p] + 1
    <3>1. Staged(p)'
      BY <1>d, <2>3, <2>4, <2>5 DEF Staged, StagedBy
    <3> QED BY <1>d, <2>2, <2>5, <3>1 DEF FillInv
  <2>6. CASE i[p] = Len(Files) /\ pc'[p] = "replace"
    <3>1. \A n \in Names : holds'[Staging][n] = "whole"
      BY <1>d, <2>1, <2>3, <2>6 DEF StagedBy
    <3> QED BY <1>d, <2>2, <2>6, <3>1 DEF FillInv
  <2> QED BY <1>6, <2>5, <2>6, WriteEffect
<1>7. CASE RenameStaging(p)
  <2>1. pc[p] = "rename" /\ \A n \in Names : holds[Staging][n] = "whole"
    BY <1>7, RenameEffect DEF FillInv
  <2>2. \/ pc'[p] = "read" /\ \A n \in Names : holds'[Dir][n] = holds[Staging][n]
        \/ pc'[p] = "off" /\ holds' = holds
    BY <1>7, RenameEffect
  <2> QED BY <2>1, <2>2 DEF FillInv, Whole
<1>8. ~(Open(p) \/ CheckFile(p) \/ ReadAsset(p) \/ Load(p) \/ ImageFails(p) \/ ImageStep(p))
  BY <1>f DEF Open, CheckFile, ReadAsset, Load, ImageFails, ImageStep, TruncateImage, StoreImage,
     PublishImage
<1> QED BY <1>1, <1>2, <1>3, <1>4, <1>5, <1>6, <1>7, <1>8 DEF Step, ImageStep

LEMMA FetchNext ==
  ASSUME TypeOK, TypeOK', HandleInv, FetchInv, NEW p \in Procs, Step(p)
  PROVE  FetchInv'
<1> SUFFICES ASSUME "assets" \notin raced'
             PROVE  /\ \A q, r \in Procs : pc'[q] \in Fetching /\ pc'[r] \in Fetching => q = r
                    /\ Settled' \/ Lacking'
                    /\ \A q \in Procs : FillInv(q)'
  BY DEF FetchInv
<1>1. /\ \A q, r \in Procs : pc[q] \in Fetching /\ pc[r] \in Fetching => q = r
      /\ Settled \/ Lacking
      /\ \A q \in Procs : FillInv(q)
  BY RacedStays DEF FetchInv
<1>2. \A q \in Procs \ {p} : pc'[q] = pc[q] /\ i'[q] = i[q] /\ short'[q] = short[q]
  BY OthersStay
<1>d. /\ Dir \in Where /\ \A j \in 1..Len(Files) : Files[j] \in Names
      /\ i \in [Procs -> 1..Len(Files)]
  BY DEF Where, Dir, Names, TypeOK
<1>3. ASSUME NEW q \in Procs, pc'[q] \notin Fetching PROVE FillInv(q)'
  BY <1>3 DEF FillInv, Fetching
<1>4. CASE Settled
  <2>1. holds' = holds /\ \A q \in Procs : pc'[q] \notin Fetching
    BY <1>2, <1>4, SettledNext DEF Settled
  <2>2. Settled'
    BY <1>4, <2>1 DEF Settled, Whole
  <2> QED BY <1>3, <2>1, <2>2
<1>5. CASE Lacking /\ pc[p] \notin Fetching
  <2>1. /\ holds' = holds
        /\ \A q \in Procs \ {p} : pc[q] # "store" => at'[q] = at[q]
        /\ pc'[p] # "read"
        /\ pc'[p] = "check" => \E j \in i'[p]..Len(Files) : Missing(j)
        /\ pc'[p] \in Fetching => pc'[p] = "clear" /\ Races(p, "assets", Fetching)
    BY <1>5, OutsideFetch
  <2>2. pc'[p] \in Fetching => \A q \in Procs \ {p} : pc[q] \notin Fetching
    BY <2>1 DEF Races, Others
  <2>3. \A q, r \in Procs : pc'[q] \in Fetching /\ pc'[r] \in Fetching => q = r
    BY <1>1, <1>2, <1>5, <2>2
  <2>4. \A j : Missing(j)' <=> Missing(j)
    BY <2>1 DEF Missing
  <2>5. Lacking'
    BY <1>2, <1>5, <2>1, <2>4 DEF Lacking
  <2>6. ASSUME NEW q \in Procs PROVE FillInv(q)'
    <3>1. CASE q = p
      <4>1. pc'[p] \notin Fetching \/ pc'[p] = "clear"
        BY <2>1
      <4>2. pc'[p] = "clear" => FillInv(p)'
        BY DEF FillInv
      <4> QED BY <1>3, <3>1, <4>1, <4>2
    <3>2. CASE q # p
      <4>1. pc'[q] = pc[q] /\ i'[q] = i[q] /\ short'[q] = short[q] /\ holds' = holds
        BY <1>2, <2>1, <3>2
      <4>2. pc[q] = "write" => at'[q] = at[q]
        BY <2>1, <3>2
      <4>3. FillInv(q)
        BY <1>1
      <4>4. Staged(q)' <=> Staged(q)
        BY <4>1 DEF Staged, StagedBy
      <4> QED BY <4>1, <4>2, <4>3, <4>4 DEF FillInv
    <3> QED BY <3>1, <3>2
  <2> QED BY <2>3, <2>5, <2>6
<1>6. CASE Lacking /\ pc[p] \in Fetching
  <2>1. \A q \in Procs \ {p} : pc'[q] \notin Fetching
    BY <1>1, <1>2, <1>6
  <2>2. FillInv(p)
    BY <1>1
  <2>3. /\ FillInv(p)'
        /\ \/ /\ pc'[p] \notin {"read", "check"}
              /\ \A n \in Names : holds[Dir][n] = "none" => holds'[Dir][n] = "none"
           \/ /\ pc'[p] = "read" /\ Whole'
    BY <1>6, <2>2, FillNext
  <2>4. \A q \in Procs : FillInv(q)'
    BY <1>3, <2>1, <2>3
  <2>5. CASE pc'[p] = "read" /\ Whole'
    BY <2>1, <2>4, <2>5 DEF Settled, Fetching
  <2>6. CASE /\ pc'[p] \notin {"read", "check"}
             /\ \A n \in Names : holds[Dir][n] = "none" => holds'[Dir][n] = "none"
    <3>1. \A j \in 1..Len(Files) : Missing(j) => Missing(j)'
      BY <1>d, <2>6 DEF Missing
    <3>2. \E j \in 1..Len(Files) : Missing(j)'
      BY <1>6, <3>1 DEF Lacking
    <3>3. ASSUME NEW q \in Procs, pc'[q] = "check" PROVE \E j \in i'[q]..Len(Files) : Missing(j)'
      <4>1. q # p /\ pc[q] = "check" /\ i'[q] = i[q] /\ i[q] \in 1..Len(Files)
        BY <1>2, <1>d, <2>6, <3>3
      <4>2. PICK j \in i[q]..Len(Files) : Missing(j)
        BY <1>6, <4>1 DEF Lacking
      <4>3. j \in 1..Len(Files)
        BY <4>1
      <4> QED BY <3>1, <4>1, <4>2, <4>3
    <3>4. \A q \in Procs : pc'[q] # "read"
      BY <1>2, <1>6, <2>6 DEF Lacking
    <3>5. Lacking'
      BY <3>2, <3>3, <3>4 DEF Lacking
    <3> QED BY <2>1, <2>4, <3>5
  <2> QED BY <2>3, <2>5, <2>6
<1> QED BY <1>1, <1>4, <1>5, <1>6

----------------------------------------------------------------------------

LEMMA CacheInvInductive == Spec => []CacheInv
<1>1. CacheInv /\ [Next]_vars => CacheInv'
  <2> SUFFICES ASSUME CacheInv, [Next]_vars PROVE CacheInv'
    OBVIOUS
  <2> USE DEF CacheInv
  <2>1. CASE Next
    <3>1. PICK p \in Procs : Step(p)
      BY <2>1 DEF Next
    <3>2. TypeOK'
      BY <3>1, TypeNext
    <3> QED BY <3>1, <3>2, HandleNext, TornNext, FetchNext, CompileNext
  <2>2. CASE UNCHANGED vars
    <3> USE <2>2 DEF vars
    <3>1. TypeOK' /\ HandleInv'
      BY DEF TypeOK, HandleInv, Empty
    <3>2. TornInv'
      BY DEF TornInv, HeldFile, HeldImage, Writes
    <3>3. FetchInv'
      BY DEF FetchInv, FillInv, Settled, Whole, Lacking, Missing, Staged, StagedBy
    <3>4. CompileInv'
      BY DEF CompileInv
    <3> QED BY <3>1, <3>2, <3>3, <3>4
  <2> QED BY <2>1, <2>2
<1> QED BY <1>1, InitCacheInv, PTL DEF Spec

\* While downloads do not overlap, a cache directory in which every name exists is
\* whole and stays so while Open reads it, whatever crashed before; and path never
\* holds a torn image while compilations do not overlap.
THEOREM CompleteIsWhole == Spec => []LooksCompleteIsWhole
<1>1. CacheInv => LooksCompleteIsWhole
  <2> SUFFICES ASSUME CacheInv PROVE LooksCompleteIsWhole
    OBVIOUS
  <2>1. /\ \A j \in 1..Len(Files) : Files[j] \in Names
        /\ \A p \in Procs : i[p] \in 1..Len(Files)
    BY DEF CacheInv, TypeOK, Names
  <2>2. ASSUME "assets" \notin raced
        PROVE  /\ assetsComplete => Whole
               /\ \A p \in Procs : pc[p] = "read" => Whole
    BY <2>1, <2>2 DEF CacheInv, FetchInv, Settled, Lacking, Missing, assetsComplete
  <2>3. ASSUME "assets" \notin raced, NEW p \in Procs, pc[p] = "read", NEW j \in i[p]..Len(Files)
        PROVE  holds[Dir][Files[j]] = "whole"
    <3>1. j \in 1..Len(Files) /\ Whole
      BY <2>1, <2>2, <2>3
    <3> QED BY <2>1, <3>1 DEF Whole
  <2> QED BY <2>2, <2>3 DEF LooksCompleteIsWhole, CacheInv, CompileInv
<1> QED BY <1>1, CacheInvInductive, PTL

\* Processes that race in one staging directory or one path.tmp heal what they
\* publish: while none has died writing, a torn file or image at the final name is
\* open in a process about to complete it.
THEOREM RacersHeal == Spec => []TornIsBeingWritten
<1>1. CacheInv => TornIsBeingWritten
  <2>1. Dir \in Where
    BY DEF Dir, Where
  <2> QED BY <2>1 DEF CacheInv, TornInv, HeldFile, HeldImage, TornIsBeingWritten
<1> QED BY <1>1, CacheInvInductive, PTL

----------------------------------------------------------------------------
(* The bundle.  Its loops are recursive functions over 0..n: each is first *)
(* given the equation of one more turn, then an invariant of that turn.    *)

\* What holds of zero and of the next number holds up to N.
LEMMA UpTo ==
  ASSUME NEW S, NEW N \in Nat, 0 \in S, \A n \in 0 .. N - 1 : n \in S => n + 1 \in S
  PROVE  \A n \in 0 .. N : n \in S
<1> DEFINE Out == {n \in 0 .. N : n \notin S}
<1> SUFFICES ASSUME Out # {} PROVE FALSE
  OBVIOUS
<1>1. Out \subseteq Nat
  OBVIOUS
<1>2. PICK n \in Out : \A k \in Out : <<k, n>> \notin OpToRel(<, Nat)
  <2> HIDE DEF Out
  <2> QED BY <1>1, WFMin, NatLessThanWellFounded
<1>3. n # 0 /\ n - 1 \in 0 .. N - 1
  OBVIOUS
<1>4. n - 1 \in Out
  BY <1>3
<1>5. <<n - 1, n>> \in OpToRel(<, Nat)
  BY <1>3 DEF OpToRel
<1> QED BY <1>2, <1>4, <1>5

\* Cleaning a path goes on with one component at a time, ...
LEMMA CleaningEquation ==
  ASSUME NEW C, NEW file \in Seq(C)
  PROVE  /\ Cleaning(file)[0] = <<>>
         /\ \A k \in 1 .. Len(file) : Cleaning(file)[k] = Follow(Cleaning(file)[k - 1], file[k])
<1> DEFINE Folds(f, N) == f = [k \in 0 .. N |-> IF k = 0 THEN <<>> ELSE Follow(f[k - 1], file[k])]
           S == {N \in Nat : \E f : Folds(f, N)}
<1>1. 0 \in S
  <2>1. Folds([k \in 0 .. 0 |-> <<>>], 0)
    OBVIOUS
  <2> QED BY <2>1
<1>2. ASSUME NEW N \in Nat, NEW f, Folds(f, N) PROVE \E g : Folds(g, N + 1)
  <2> DEFINE g == [k \in 0 .. N + 1 |-> IF k = N + 1 THEN Follow(f[N], file[N + 1]) ELSE f[k]]
  <2>1. ASSUME NEW k \in 0 .. N + 1
        PROVE  g[k] = IF k = 0 THEN <<>> ELSE Follow(g[k - 1], file[k])
    <3>1. CASE k = N + 1
      <4>1. k - 1 = N /\ g[k - 1] = f[N]
        BY <3>1
      <4> QED BY <3>1, <4>1
    <3>2. CASE k \in 1 .. N
      <4>1. k \in 0 .. N /\ k - 1 \in 0 .. N /\ k # 0 /\ k # N + 1 /\ k - 1 # N + 1
        BY <3>2
      <4>2. g[k] = f[k] /\ g[k - 1] = f[k - 1]
        BY <4>1
      <4>3. f[k] = Follow(f[k - 1], file[k])
        BY <1>2, <4>1
      <4> QED BY <4>1, <4>2, <4>3
    <3>3. CASE k = 0
      BY <1>2, <3>3
    <3> QED BY <3>1, <3>2, <3>3
  <2>2. g = [k \in 0 .. N + 1 |-> g[k]]
    OBVIOUS
  <2>3. Folds(g, N + 1)
    <3> HIDE DEF g
    <3> QED BY <2>1, <2>2
  <2> QED BY <2>3
<1> HIDE DEF Folds
<1> DEFINE N == Len(file)
<1>3. N \in Nat
  OBVIOUS
<1>4. \A k \in 0 .. N - 1 : k \in S => k + 1 \in S
  BY <1>2
<1>5. N \in S
  <2> HIDE DEF S, N
  <2>1. \A k \in 0 .. N : k \in S
    BY <1>1, <1>3, <1>4, UpTo
  <2> QED BY <1>3, <2>1
<1>6. Folds(Cleaning(file), N)
  BY <1>5 DEF Folds, Cleaning
<1> DEFINE F == Cleaning(file)
<1> HIDE DEF N, F
<1>7. \A k \in 0 .. N : F[k] = IF k = 0 THEN <<>> ELSE Follow(F[k - 1], file[k])
  BY <1>6 DEF Folds, F
<1>8. F[0] = <<>> /\ \A k \in 1 .. N : F[k] = Follow(F[k - 1], file[k])
  <2>1. 0 \in 0 .. N /\ \A k \in 1 .. N : k \in 0 .. N /\ k # 0
    BY <1>3
  <2> QED BY <1>7, <2>1
<1> QED BY <1>8 DEF F, N

\* ... a node is entered below the directories above it, ...
LEMMA EnteringEquation ==
  ASSUME NEW nodes, NEW C, NEW path \in Seq(C), NEW node
  PROVE  /\ Entering(nodes, path, node)[0] = nodes
         /\ \A k \in 1 .. Len(path) : Entering(nodes, path, node)[k] = EnterPart(Entering(nodes, path, node)[k - 1], path, k, node)
<1> DEFINE Folds(f, N) == f = [k \in 0 .. N |-> IF k = 0 THEN nodes ELSE EnterPart(f[k - 1], path, k, node)]
           S == {N \in Nat : \E f : Folds(f, N)}
<1>1. 0 \in S
  <2>1. Folds([k \in 0 .. 0 |-> nodes], 0)
    OBVIOUS
  <2> QED BY <2>1
<1>2. ASSUME NEW N \in Nat, NEW f, Folds(f, N) PROVE \E g : Folds(g, N + 1)
  <2> DEFINE g == [k \in 0 .. N + 1 |-> IF k = N + 1 THEN EnterPart(f[N], path, N + 1, node) ELSE f[k]]
  <2>1. ASSUME NEW k \in 0 .. N + 1
        PROVE  g[k] = IF k = 0 THEN nodes ELSE EnterPart(g[k - 1], path, k, node)
    <3>1. CASE k = N + 1
      <4>1. k - 1 = N /\ g[k - 1] = f[N]
        BY <3>1
      <4> QED BY <3>1, <4>1
    <3>2. CASE k \in 1 .. N
      <4>1. k \in 0 .. N /\ k - 1 \in 0 .. N /\ k # 0 /\ k # N + 1 /\ k - 1 # N + 1
        BY <3>2
      <4>2. g[k] = f[k] /\ g[k - 1] = f[k - 1]
        BY <4>1
      <4>3. f[k] = EnterPart(f[k - 1], path, k, node)
        BY <1>2, <4>1
      <4> QED BY <4>1, <4>2, <4>3
    <3>3. CASE k = 0
      BY <1>2, <3>3
    <3> QED BY <3>1, <3>2, <3>3
  <2>2. g = [k \in 0 .. N + 1 |-> g[k]]
    OBVIOUS
  <2>3. Folds(g, N + 1)
    <3> HIDE DEF g
    <3> QED BY <2>1, <2>2
  <2> QED BY <2>3
<1> HIDE DEF Folds
<1> DEFINE N == Len(path)
<1>3. N \in Nat
  OBVIOUS
<1>4. \A k \in 0 .. N - 1 : k \in S => k + 1 \in S
  BY <1>2
<1>5. N \in S
  <2> HIDE DEF S, N
  <2>1. \A k \in 0 .. N : k \in S
    BY <1>1, <1>3, <1>4, UpTo
  <2> QED BY <1>3, <2>1
<1>6. Folds(Entering(nodes, path, node), N)
  BY <1>5 DEF Folds, Entering
<1> DEFINE F == Entering(nodes, path, node)
<1> HIDE DEF N, F
<1>7. \A k \in 0 .. N : F[k] = IF k = 0 THEN nodes ELSE EnterPart(F[k - 1], path, k, node)
  BY <1>6 DEF Folds, F
<1>8. F[0] = nodes /\ \A k \in 1 .. N : F[k] = EnterPart(F[k - 1], path, k, node)
  <2>1. 0 \in 0 .. N /\ \A k \in 1 .. N : k \in 0 .. N /\ k # 0
    BY <1>3
  <2> QED BY <1>7, <2>1
<1> QED BY <1>8 DEF F, N

NodeOf(e) == FileNode(e.start, e.end, Executable(e.file))

\* ... a manifest is loaded entry by entry, ...
LEMMA LoadingEquation ==
  ASSUME NEW E, NEW manifest \in Seq(E)
  PROVE  /\ Loading(manifest)[0] = [p \in {<<>>} |-> Root]
         /\ \A k \in 1 .. Len(manifest) : Loading(manifest)[k] = insert(Loading(manifest)[k - 1], PathOf(manifest, k), NodeOf(manifest[k]))
<1> DEFINE Folds(f, N) == f = [k \in 0 .. N |-> IF k = 0 THEN [p \in {<<>>} |-> Root] ELSE insert(f[k - 1], PathOf(manifest, k), NodeOf(manifest[k]))]
           S == {N \in Nat : \E f : Folds(f, N)}
<1>1. 0 \in S
  <2>1. Folds([k \in 0 .. 0 |-> [p \in {<<>>} |-> Root]], 0)
    OBVIOUS
  <2> QED BY <2>1
<1>2. ASSUME NEW N \in Nat, NEW f, Folds(f, N) PROVE \E g : Folds(g, N + 1)
  <2> DEFINE g == [k \in 0 .. N + 1 |-> IF k = N + 1 THEN insert(f[N], PathOf(manifest, N + 1), NodeOf(manifest[N + 1])) ELSE f[k]]
  <2>1. ASSUME NEW k \in 0 .. N + 1
        PROVE  g[k] = IF k = 0 THEN [p \in {<<>>} |-> Root] ELSE insert(g[k - 1], PathOf(manifest, k), NodeOf(manifest[k]))
    <3>1. CASE k = N + 1
      <4>1. k - 1 = N /\ g[k - 1] = f[N]
        BY <3>1
      <4> QED BY <3>1, <4>1
    <3>2. CASE k \in 1 .. N
      <4>1. k \in 0 .. N /\ k - 1 \in 0 .. N /\ k # 0 /\ k # N + 1 /\ k - 1 # N + 1
        BY <3>2
      <4>2. g[k] = f[k] /\ g[k - 1] = f[k - 1]
        BY <4>1
      <4>3. f[k] = insert(f[k - 1], PathOf(manifest, k), NodeOf(manifest[k]))
        BY <1>2, <4>1
      <4> QED BY <4>1, <4>2, <4>3
    <3>3. CASE k = 0
      BY <1>2, <3>3
    <3> QED BY <3>1, <3>2, <3>3
  <2>2. g = [k \in 0 .. N + 1 |-> g[k]]
    OBVIOUS
  <2>3. Folds(g, N + 1)
    <3> HIDE DEF g
    <3> QED BY <2>1, <2>2
  <2> QED BY <2>3
<1> HIDE DEF Folds
<1> DEFINE N == Len(manifest)
<1>3. N \in Nat
  OBVIOUS
<1>4. \A k \in 0 .. N - 1 : k \in S => k + 1 \in S
  BY <1>2
<1>5. N \in S
  <2> HIDE DEF S, N
  <2>1. \A k \in 0 .. N : k \in S
    BY <1>1, <1>3, <1>4, UpTo
  <2> QED BY <1>3, <2>1
<1>6. Folds(Loading(manifest), N)
  BY <1>5 DEF Folds, Loading, PathOf, NodeOf
<1> DEFINE F == Loading(manifest)
<1> HIDE DEF N, F
<1>7. \A k \in 0 .. N : F[k] = IF k = 0 THEN [p \in {<<>>} |-> Root] ELSE insert(F[k - 1], PathOf(manifest, k), NodeOf(manifest[k]))
  BY <1>6 DEF Folds, F
<1>8. F[0] = [p \in {<<>>} |-> Root] /\ \A k \in 1 .. N : F[k] = insert(F[k - 1], PathOf(manifest, k), NodeOf(manifest[k]))
  <2>1. 0 \in 0 .. N /\ \A k \in 1 .. N : k \in 0 .. N /\ k # 0
    BY <1>3
  <2> QED BY <1>7, <2>1
<1> QED BY <1>8 DEF F, N

\* ... a file is read piece by piece ...
LEMMA ReadingEquation ==
  ASSUME NEW B, NEW bs \in Seq(B), NEW n, NEW off
  PROVE  /\ Reading(bs, n, off)[0] = [v |-> <<>>, off |-> off, done |-> FALSE]
         /\ \A k \in 1 .. Len(bs) + 1 : Reading(bs, n, off)[k] = ReadOn(bs, n, Reading(bs, n, off)[k - 1])
<1> DEFINE Folds(f, N) == f = [k \in 0 .. N |-> IF k = 0 THEN [v |-> <<>>, off |-> off, done |-> FALSE] ELSE ReadOn(bs, n, f[k - 1])]
           S == {N \in Nat : \E f : Folds(f, N)}
<1>1. 0 \in S
  <2>1. Folds([k \in 0 .. 0 |-> [v |-> <<>>, off |-> off, done |-> FALSE]], 0)
    OBVIOUS
  <2> QED BY <2>1
<1>2. ASSUME NEW N \in Nat, NEW f, Folds(f, N) PROVE \E g : Folds(g, N + 1)
  <2> DEFINE g == [k \in 0 .. N + 1 |-> IF k = N + 1 THEN ReadOn(bs, n, f[N]) ELSE f[k]]
  <2>1. ASSUME NEW k \in 0 .. N + 1
        PROVE  g[k] = IF k = 0 THEN [v |-> <<>>, off |-> off, done |-> FALSE] ELSE ReadOn(bs, n, g[k - 1])
    <3>1. CASE k = N + 1
      <4>1. k - 1 = N /\ g[k - 1] = f[N]
        BY <3>1
      <4> QED BY <3>1, <4>1
    <3>2. CASE k \in 1 .. N
      <4>1. k \in 0 .. N /\ k - 1 \in 0 .. N /\ k # 0 /\ k # N + 1 /\ k - 1 # N + 1
        BY <3>2
      <4>2. g[k] = f[k] /\ g[k - 1] = f[k - 1]
        BY <4>1
      <4>3. f[k] = ReadOn(bs, n, f[k - 1])
        BY <1>2, <4>1
      <4> QED BY <4>1, <4>2, <4>3
    <3>3. CASE k = 0
      BY <1>2, <3>3
    <3> QED BY <3>1, <3>2, <3>3
  <2>2. g = [k \in 0 .. N + 1 |-> g[k]]
    OBVIOUS
  <2>3. Folds(g, N + 1)
    <3> HIDE DEF g
    <3> QED BY <2>1, <2>2
  <2> QED BY <2>3
<1> HIDE DEF Folds
<1> DEFINE N == Len(bs) + 1
<1>3. N \in Nat
  OBVIOUS
<1>4. \A k \in 0 .. N - 1 : k \in S => k + 1 \in S
  BY <1>2
<1>5. N \in S
  <2> HIDE DEF S, N
  <2>1. \A k \in 0 .. N : k \in S
    BY <1>1, <1>3, <1>4, UpTo
  <2> QED BY <1>3, <2>1
<1>6. Folds(Reading(bs, n, off), N)
  BY <1>5 DEF Folds, Reading
<1> DEFINE F == Reading(bs, n, off)
<1> HIDE DEF N, F
<1>7. \A k \in 0 .. N : F[k] = IF k = 0 THEN [v |-> <<>>, off |-> off, done |-> FALSE] ELSE ReadOn(bs, n, F[k - 1])
  BY <1>6 DEF Folds, F
<1>8. F[0] = [v |-> <<>>, off |-> off, done |-> FALSE] /\ \A k \in 1 .. N : F[k] = ReadOn(bs, n, F[k - 1])
  <2>1. 0 \in 0 .. N /\ \A k \in 1 .. N : k \in 0 .. N /\ k # 0
    BY <1>3
  <2> QED BY <1>7, <2>1
<1> QED BY <1>8 DEF F, N

\* ... and a directory some names at a time.
LEMMA ListingEquation ==
  ASSUME NEW B, NEW order \in Seq(B), NEW n
  PROVE  /\ Listing(order, n)[0] = [v |-> <<>>, d |-> [entries |-> order, pos |-> 0], done |-> FALSE]
         /\ \A k \in 1 .. Len(order) + 1 : Listing(order, n)[k] = ListOn(n, Listing(order, n)[k - 1])
<1> DEFINE Folds(f, N) == f = [k \in 0 .. N |-> IF k = 0 THEN [v |-> <<>>, d |-> [entries |-> order, pos |-> 0], done |-> FALSE] ELSE ListOn(n, f[k - 1])]
           S == {N \in Nat : \E f : Folds(f, N)}
<1>1. 0 \in S
  <2>1. Folds([k \in 0 .. 0 |-> [v |-> <<>>, d |-> [entries |-> order, pos |-> 0], done |-> FALSE]], 0)
    OBVIOUS
  <2> QED BY <2>1
<1>2. ASSUME NEW N \in Nat, NEW f, Folds(f, N) PROVE \E g : Folds(g, N + 1)
  <2> DEFINE g == [k \in 0 .. N + 1 |-> IF k = N + 1 THEN ListOn(n, f[N]) ELSE f[k]]
  <2>1. ASSUME NEW k \in 0 .. N + 1
        PROVE  g[k] = IF k = 0 THEN [v |-> <<>>, d |-> [entries |-> order, pos |-> 0], done |-> FALSE] ELSE ListOn(n, g[k - 1])
    <3>1. CASE k = N + 1
      <4>1. k - 1 = N /\ g[k - 1] = f[N]
        BY <3>1
      <4> QED BY <3>1, <4>1
    <3>2. CASE k \in 1 .. N
      <4>1. k \in 0 .. N /\ k - 1 \in 0 .. N /\ k # 0 /\ k # N + 1 /\ k - 1 # N + 1
        BY <3>2
      <4>2. g[k] = f[k] /\ g[k - 1] = f[k - 1]
        BY <4>1
      <4>3. f[k] = ListOn(n, f[k - 1])
        BY <1>2, <4>1
      <4> QED BY <4>1, <4>2, <4>3
    <3>3. CASE k = 0
      BY <1>2, <3>3
    <3> QED BY <3>1, <3>2, <3>3
  <2>2. g = [k \in 0 .. N + 1 |-> g[k]]
    OBVIOUS
  <2>3. Folds(g, N + 1)
    <3> HIDE DEF g
    <3> QED BY <2>1, <2>2
  <2> QED BY <2>3
<1> HIDE DEF Folds
<1> DEFINE N == Len(order) + 1
<1>3. N \in Nat
  OBVIOUS
<1>4. \A k \in 0 .. N - 1 : k \in S => k + 1 \in S
  BY <1>2
<1>5. N \in S
  <2> HIDE DEF S, N
  <2>1. \A k \in 0 .. N : k \in S
    BY <1>1, <1>3, <1>4, UpTo
  <2> QED BY <1>3, <2>1
<1>6. Folds(Listing(order, n), N)
  BY <1>5 DEF Folds, Listing
<1> DEFINE F == Listing(order, n)
<1> HIDE DEF N, F
<1>7. \A k \in 0 .. N : F[k] = IF k = 0 THEN [v |-> <<>>, d |-> [entries |-> order, pos |-> 0], done |-> FALSE] ELSE ListOn(n, F[k - 1])
  BY <1>6 DEF Folds, F
<1>8. F[0] = [v |-> <<>>, d |-> [entries |-> order, pos |-> 0], done |-> FALSE] /\ \A k \in 1 .. N : F[k] = ListOn(n, F[k - 1])
  <2>1. 0 \in 0 .. N /\ \A k \in 1 .. N : k \in 0 .. N /\ k # 0
    BY <1>3
  <2> QED BY <1>7, <2>1
<1> QED BY <1>8 DEF F, N

----------------------------------------------------------------------------
(* What is read and listed.                                                *)

\* Where a reader stands who began at off and made k reads: it has what lies between,
\* and has seen EOF or gone on with each read.
HasRead(a, bs, off, k) ==
    /\ a = [v |-> a.v, off |-> a.off, done |-> a.done] /\ a.done \in BOOLEAN
    /\ a.off \in off .. Len(bs)
    /\ a.v = SubSeq(bs, off + 1, a.off)
    /\ IF a.done THEN a.off = Len(bs) ELSE a.off >= off + k

\* One read goes on to the end, or by all it asked for.
LEMMA FileReadGoesOn ==
  ASSUME NEW B, NEW bs \in Seq(B), NEW n \in Nat \ {0}, NEW off \in 0 .. Len(bs)
  PROVE  LET r == FileRead(bs, n, off) IN
         /\ r.off \in off .. Len(bs) /\ r.v = SubSeq(bs, off + 1, r.off)
         /\ IF r.err = "EOF" THEN r.off = Len(bs) ELSE r.off = off + n
<1> DEFINE v == ReadAt(bs, n, off).v
           e == ReadAt(bs, n, off).err
           r == FileRead(bs, n, off)
<1>0. Len(bs) \in Nat /\ off \in Nat /\ n > 0
  OBVIOUS
<1>1. r.v = v /\ r.err = e /\ r.off = off + Len(v)
  BY DEF FileRead
<1> HIDE DEF r
<1>2. CASE off = Len(bs)
  <2>1. v = <<>> /\ e = "EOF"
    BY <1>0, <1>2 DEF ReadAt
  <2>2. SubSeq(bs, off + 1, off) = <<>>
    BY <1>0, SubSeqEmpty
  <2> QED BY <1>0, <1>1, <1>2, <2>1, <2>2 DEF r
<1>3. CASE off < Len(bs) /\ Len(bs) - off < n
  <2>1. v = SubSeq(bs, off + 1, Len(bs)) /\ e = "EOF"
    BY <1>0, <1>3 DEF ReadAt
  <2>2. Len(v) = Len(bs) - off
    BY <1>0, <1>3, <2>1, SubSeqProperties
  <2>3. r.off = Len(bs)
    BY <1>0, <1>1, <2>2
  <2> QED BY <1>0, <1>1, <2>1, <2>3 DEF r
<1>4. CASE off < Len(bs) /\ Len(bs) - off >= n
  <2>1. v = SubSeq(bs, off + 1, off + n) /\ e = ""
    BY <1>0, <1>4 DEF ReadAt
  <2>2. Len(v) = n
    <3>1. \A j \in off + 1 .. off + n : bs[j] \in B
      BY <1>0, <1>4
    <3> HIDE DEF v
    <3>2. off + 1 \in Int /\ off + n \in Int /\ off + 1 <= off + n /\ (off + n) - (off + 1) + 1 = n
      BY <1>0
    <3>3. Len(SubSeq(bs, off + 1, off + n)) = (off + n) - (off + 1) + 1
      BY <3>1, <3>2, SubSeqProperties
    <3> QED BY <2>1, <3>2, <3>3
  <2>3. r.off = off + n /\ r.off \in off .. Len(bs)
    BY <1>0, <1>1, <1>4, <2>2
  <2>4. r.err = "" /\ r.err # "EOF"
    BY <1>1, <2>1
  <2> QED BY <1>1, <2>1, <2>3, <2>4 DEF r
<1> QED BY <1>0, <1>2, <1>3, <1>4

\* Reading on until EOF gives the rest of the file.
LEMMA ReadsRest ==
  ASSUME NEW B, NEW bs \in Seq(B), NEW n \in Nat \ {0}, NEW off \in 0 .. Len(bs)
  PROVE  ReadsTo(bs, n, off, SubSeq(bs, off + 1, Len(bs)))
<1> DEFINE R == Reading(bs, n, off)
           N == Len(bs) + 1
           S == {k \in 0 .. N : HasRead(R[k], bs, off, k)}
<1>0. Len(bs) \in Nat /\ off \in Nat /\ N \in Nat
  OBVIOUS
<1>1. R[0] = [v |-> <<>>, off |-> off, done |-> FALSE] /\ \A k \in 1 .. N : R[k] = ReadOn(bs, n, R[k - 1])
  BY ReadingEquation
<1> HIDE DEF R
<1>2. 0 \in S
  <2>1. SubSeq(bs, off + 1, off) = <<>>
    BY <1>0, SubSeqEmpty
  <2>2. /\ R[0] = [v |-> R[0].v, off |-> R[0].off, done |-> R[0].done]
        /\ R[0].v = <<>> /\ R[0].off = off /\ R[0].done \in BOOLEAN /\ ~R[0].done
    BY <1>1
  <2>3. HasRead(R[0], bs, off, 0)
    <3>1. off \in off .. Len(bs) /\ off >= off + 0
      BY <1>0
    <3> QED BY <2>1, <2>2, <3>1 DEF HasRead
  <2> QED BY <1>0, <2>3
<1>3. ASSUME NEW k \in 0 .. N - 1, k \in S PROVE k + 1 \in S
  <2> DEFINE a == R[k]
             d == R[k + 1]
             r == FileRead(bs, n, a.off)
  <2>1. k + 1 \in 1 .. N /\ (k + 1) - 1 = k /\ k \in Nat
    BY <1>0
  <2>2. d = ReadOn(bs, n, a) /\ HasRead(a, bs, off, k)
    BY <1>1, <1>3, <2>1
  <2> HIDE DEF a, d
  <2>3. CASE a.done
    <3>1. d = a
      BY <2>2, <2>3 DEF ReadOn
    <3>2. HasRead(d, bs, off, k + 1)
      BY <2>2, <2>3, <3>1 DEF HasRead
    <3> QED BY <2>1, <3>2 DEF d
  <2>4. CASE ~a.done
    <3>1. a.off \in 0 .. Len(bs) /\ a.off >= off + k /\ a.off \in off .. Len(bs)
      BY <1>0, <2>1, <2>2, <2>4 DEF HasRead
    <3>2. /\ r.off \in a.off .. Len(bs) /\ r.v = SubSeq(bs, a.off + 1, r.off)
          /\ IF r.err = "EOF" THEN r.off = Len(bs) ELSE r.off = a.off + n
      BY <3>1, FileReadGoesOn
    <3> HIDE DEF r
    <3>3. d = [v |-> a.v \o r.v, off |-> r.off, done |-> r.err = "EOF"]
      BY <2>2, <2>4 DEF ReadOn, r
    <3>4. a.v \o r.v = SubSeq(bs, off + 1, r.off)
      <4>1. off + 1 \in 1 .. Len(bs) + 1 /\ a.off \in (off + 1) - 1 .. Len(bs) /\ r.off \in a.off .. Len(bs)
        BY <1>0, <3>1, <3>2
      <4>2. SubSeq(bs, off + 1, a.off) \o SubSeq(bs, a.off + 1, r.off) = SubSeq(bs, off + 1, r.off)
        BY <4>1, ConcatAdjacentSubSeq
      <4>3. a.v = SubSeq(bs, off + 1, a.off)
        BY <2>2 DEF HasRead
      <4> QED BY <3>2, <4>2, <4>3
    <3>5. d.v = SubSeq(bs, off + 1, r.off) /\ d.off = r.off /\ d.done = (r.err = "EOF")
      BY <3>3, <3>4
    <3>6. d = [v |-> d.v, off |-> d.off, done |-> d.done]
      BY <3>3
    <3>7. r.off \in off .. Len(bs) /\ (r.err # "EOF" => r.off >= off + (k + 1))
      BY <1>0, <2>1, <3>1, <3>2
    <3>8. HasRead(d, bs, off, k + 1)
      BY <3>2, <3>5, <3>6, <3>7 DEF HasRead
    <3> QED BY <2>1, <3>8 DEF d
  <2> QED BY <2>3, <2>4
<1>4. N \in S
  <2> HIDE DEF S, N
  <2>1. \A k \in 0 .. N : k \in S
    BY <1>0, <1>2, <1>3, UpTo
  <2> QED BY <1>0, <2>1
<1>5. HasRead(R[N], bs, off, N)
  BY <1>4
<1>6. R[N].done /\ R[N].off = Len(bs) /\ R[N].v = SubSeq(bs, off + 1, Len(bs))
  BY <1>0, <1>5 DEF HasRead
<1> QED BY <1>6 DEF ReadsTo, R

\* Where a lister stands after k calls.
HasListed(a, order, k) ==
    /\ a = [v |-> a.v, d |-> a.d, done |-> a.done] /\ a.done \in BOOLEAN
    /\ a.d = [entries |-> order, pos |-> a.d.pos] /\ a.d.pos \in 0 .. Len(order)
    /\ a.v = SubSeq(order, 1, a.d.pos)
    /\ IF a.done THEN a.d.pos = Len(order) ELSE a.d.pos >= k

\* One call goes on by some names, or has none to go on with.
LEMMA ListGoesOn ==
  ASSUME NEW B, NEW order \in Seq(B), NEW n \in Nat \ {0}, NEW pos \in 0 .. Len(order)
  PROVE  LET r == DirReadDir([entries |-> order, pos |-> pos], n) IN
         \E end \in pos .. Len(order) :
            /\ r.d = [entries |-> order, pos |-> end] /\ r.v = SubSeq(order, pos + 1, end)
            /\ IF r.err = "EOF" THEN end = Len(order) ELSE end > pos
<1> DEFINE d == [entries |-> order, pos |-> pos]
           r == DirReadDir(d, n)
           end == IF pos + n > Len(order) THEN Len(order) ELSE pos + n
           Outcome(q) == \E e \in pos .. Len(order) :
                            /\ q.d = [entries |-> order, pos |-> e] /\ q.v = SubSeq(order, pos + 1, e)
                            /\ IF q.err = "EOF" THEN e = Len(order) ELSE e > pos
<1>0. Len(order) \in Nat /\ pos \in Nat /\ n > 0 /\ ~(n <= 0) /\ d.entries = order /\ d.pos = pos
  OBVIOUS
<1>1. ASSUME pos = Len(order) PROVE Outcome(r)
  <2>1. r = [v |-> <<>>, err |-> "EOF", d |-> d]
    <3> HIDE DEF d
    <3> QED BY <1>0, <1>1 DEF DirReadDir
  <2>2. SubSeq(order, pos + 1, pos) = <<>>
    BY <1>0, SubSeqEmpty
  <2>3. r.v = <<>> /\ r.err = "EOF" /\ r.d = d
    <3> HIDE DEF r
    <3> QED BY <2>1
  <2> HIDE DEF r
  <2> QED BY <1>0, <1>1, <2>2, <2>3
<1>2. ASSUME pos < Len(order) PROVE Outcome(r)
  <2>1. r = [v |-> SubSeq(order, pos + 1, end), err |-> "", d |-> [d EXCEPT !.pos = end]]
    <3>1. ~(d.pos >= Len(d.entries)) /\ ~(n <= 0)
      BY <1>0, <1>2
    <3>2. end = IF d.pos + n > Len(d.entries) THEN Len(d.entries) ELSE d.pos + n
      BY <1>0
    <3>3. SubSeq(order, pos + 1, end) = SubSeq(d.entries, d.pos + 1, end)
      BY <1>0
    <3> HIDE DEF d, end
    <3> QED BY <3>1, <3>2, <3>3 DEF DirReadDir
  <2>2. [d EXCEPT !.pos = end] = [entries |-> order, pos |-> end]
    <3> HIDE DEF end
    <3> QED OBVIOUS
  <2>3. end \in pos .. Len(order) /\ end > pos
    BY <1>0, <1>2
  <2>4. r.v = SubSeq(order, pos + 1, end) /\ r.err = "" /\ r.d = [entries |-> order, pos |-> end]
    <3> HIDE DEF r, d, end
    <3> QED BY <2>1, <2>2
  <2>5. r.err # "EOF"
    BY <2>4
  <2> HIDE DEF r, end
  <2> QED BY <2>3, <2>4, <2>5
<1>3. Outcome(r)
  <2> HIDE DEF r, Outcome
  <2> QED BY <1>0, <1>1, <1>2
<1> QED BY <1>3

\* Listing on until EOF gives the directory, in the order the handle took.
LEMMA ListsAll ==
  ASSUME NEW B, NEW order \in Seq(B), NEW n \in Nat \ {0}
  PROVE  Lists(order, n)
<1> DEFINE R == Listing(order, n)
           N == Len(order) + 1
           S == {k \in 0 .. N : HasListed(R[k], order, k)}
<1>0. Len(order) \in Nat /\ N \in Nat
  OBVIOUS
<1>1. /\ R[0] = [v |-> <<>>, d |-> [entries |-> order, pos |-> 0], done |-> FALSE]
      /\ \A k \in 1 .. N : R[k] = ListOn(n, R[k - 1])
  BY ListingEquation
<1> HIDE DEF R
<1>2. 0 \in S
  <2>1. SubSeq(order, 1, 0) = <<>>
    BY <1>0, SubSeqEmpty
  <2>2. /\ R[0] = [v |-> R[0].v, d |-> R[0].d, done |-> R[0].done]
        /\ R[0].v = <<>> /\ R[0].d = [entries |-> order, pos |-> 0] /\ R[0].done \in BOOLEAN /\ ~R[0].done
    BY <1>1
  <2>3. R[0].d.pos = 0 /\ 0 \in 0 .. Len(order) /\ 0 >= 0
    BY <1>0, <2>2
  <2>4. HasListed(R[0], order, 0)
    BY <2>1, <2>2, <2>3 DEF HasListed
  <2> QED BY <1>0, <2>4
<1>3. ASSUME NEW k \in 0 .. N - 1, k \in S PROVE k + 1 \in S
  <2> DEFINE a == R[k]
             b == R[k + 1]
             r == DirReadDir(a.d, n)
  <2>1. k + 1 \in 1 .. N /\ (k + 1) - 1 = k /\ k \in Nat
    BY <1>0
  <2>2. b = ListOn(n, a) /\ HasListed(a, order, k)
    BY <1>1, <1>3, <2>1
  <2> HIDE DEF a, b
  <2>3. CASE a.done
    <3>1. b = a
      BY <2>2, <2>3 DEF ListOn
    <3>2. HasListed(b, order, k + 1)
      BY <2>2, <2>3, <3>1 DEF HasListed
    <3> QED BY <2>1, <3>2 DEF b
  <2>4. CASE ~a.done
    <3> DEFINE p == a.d.pos
    <3>1. p \in 0 .. Len(order) /\ p >= k /\ a.d = [entries |-> order, pos |-> p] /\ a.v = SubSeq(order, 1, p)
      BY <2>2, <2>4 DEF HasListed
    <3> HIDE DEF p
    <3>2. PICK end \in p .. Len(order) :
            /\ r.d = [entries |-> order, pos |-> end] /\ r.v = SubSeq(order, p + 1, end)
            /\ IF r.err = "EOF" THEN end = Len(order) ELSE end > p
      <4>1. r = DirReadDir([entries |-> order, pos |-> p], n)
        BY <3>1
      <4> HIDE DEF r
      <4> QED BY <3>1, <4>1, ListGoesOn
    <3> HIDE DEF r
    <3>3. b = [v |-> a.v \o r.v, d |-> r.d, done |-> r.err = "EOF"]
      BY <2>2, <2>4 DEF ListOn, r
    <3>4. a.v \o r.v = SubSeq(order, 1, end)
      <4>1. 1 \in 1 .. Len(order) + 1 /\ p \in 1 - 1 .. Len(order) /\ end \in p .. Len(order)
        BY <1>0, <3>1, <3>2
      <4>2. SubSeq(order, 1, p) \o SubSeq(order, p + 1, end) = SubSeq(order, 1, end)
        BY <4>1, ConcatAdjacentSubSeq
      <4> QED BY <3>1, <3>2, <4>2
    <3>5. /\ b.v = SubSeq(order, 1, end) /\ b.d = [entries |-> order, pos |-> end]
          /\ b.done = (r.err = "EOF")
      BY <3>2, <3>3, <3>4
    <3>6. b = [v |-> b.v, d |-> b.d, done |-> b.done]
      BY <3>3
    <3>7. end \in 0 .. Len(order) /\ (r.err # "EOF" => end >= k + 1)
      BY <1>0, <2>1, <3>1, <3>2
    <3>8. b.d.pos = end
      BY <3>5
    <3>9. HasListed(b, order, k + 1)
      BY <3>2, <3>5, <3>6, <3>7, <3>8 DEF HasListed
    <3> QED BY <2>1, <3>9 DEF b
  <2> QED BY <2>3, <2>4
<1>4. N \in S
  <2> HIDE DEF S, N
  <2>1. \A k \in 0 .. N : k \in S
    BY <1>0, <1>2, <1>3, UpTo
  <2> QED BY <1>0, <2>1
<1>5. HasListed(R[N], order, N)
  BY <1>4
<1>6. R[N].done /\ R[N].v = SubSeq(order, 1, Len(order))
  <2>1. ~R[N].done => R[N].d.pos >= Len(order) + 1 /\ R[N].d.pos \in 0 .. Len(order)
    BY <1>5 DEF HasListed
  <2> QED BY <1>0, <1>5, <2>1 DEF HasListed
<1>7. SubSeq(order, 1, Len(order)) = order
  BY SubSeqFull
<1> QED BY <1>6, <1>7 DEF Lists, R

----------------------------------------------------------------------------
(* The tree of nodes.                                                      *)

\* A path is cleaned to a path.
LEMMA CleanType ==
  ASSUME NEW C, NEW file \in Seq(C)
  PROVE  Clean(file) \in Seq(C)
<1> DEFINE F == Cleaning(file)
           N == Len(file)
           S == {k \in 0 .. N : F[k] \in Seq(C)}
<1>0. N \in Nat
  OBVIOUS
<1>1. F[0] = <<>> /\ \A k \in 1 .. N : F[k] = Follow(F[k - 1], file[k])
  BY CleaningEquation
<1> HIDE DEF F
<1>2. 0 \in S
  <2>1. <<>> \in Seq(C)
    OBVIOUS
  <2>2. F[0] \in Seq(C)
    BY <1>1, <2>1
  <2> QED BY <1>0, <2>2
<1>3. ASSUME NEW k \in 0 .. N - 1, k \in S PROVE k + 1 \in S
  <2> DEFINE p == F[k]
             c == file[k + 1]
  <2>1. k + 1 \in 1 .. N /\ (k + 1) - 1 = k
    BY <1>0
  <2>2. F[k + 1] = Follow(p, c) /\ p \in Seq(C) /\ c \in C
    BY <1>1, <1>3, <2>1
  <2> HIDE DEF p, c
  <2>3. Follow(p, c) \in {p, Parent(p), Append(p, c)}
    BY <2>2 DEF Follow
  <2>4. p # <<>> => Parent(p) \in Seq(C)
    BY <2>2 DEF Parent, Place
  <2>5. c = ".." /\ p = <<>> => Follow(p, c) = p
    BY DEF Follow
  <2>6. Append(p, c) \in Seq(C)
    BY <2>2
  <2>7. p = <<>> => Follow(p, c) \in {p, Append(p, c)}
    BY <2>2 DEF Follow
  <2>8. F[k + 1] \in Seq(C)
    BY <2>2, <2>3, <2>4, <2>6, <2>7
  <2> QED BY <2>1, <2>8
<1>4. N \in S
  <2> HIDE DEF S, N
  <2>1. \A k \in 0 .. N : k \in S
    BY <1>0, <1>2, <1>3, UpTo
  <2> QED BY <1>0, <2>1
<1> QED BY <1>4 DEF Clean, F

\* The places on a path.
LEMMA PlaceIs ==
  ASSUME NEW C, NEW q \in Seq(C), NEW k \in 0 .. Len(q)
  PROVE  /\ Place(q, k) \in Seq(C) /\ Len(Place(q, k)) = k
         /\ \A j \in 1 .. k : Place(q, k)[j] = q[j]
         /\ \A j \in 0 .. k : Place(Place(q, k), j) = Place(q, j)
         /\ k = Len(q) => Place(q, k) = q
         /\ k = 0 => Place(q, k) = <<>>
<1>0. k \in Nat /\ Len(q) \in Nat /\ k <= Len(q)
  OBVIOUS
<1>1. \A j \in 0 .. Len(q) : /\ SubSeq(q, 1, j) \in Seq(C) /\ Len(SubSeq(q, 1, j)) = j
                             /\ \A l \in 1 .. j : SubSeq(q, 1, j)[l] = q[l]
  <2> SUFFICES ASSUME NEW j \in 0 .. Len(q)
               PROVE  /\ SubSeq(q, 1, j) \in Seq(C) /\ Len(SubSeq(q, 1, j)) = j
                      /\ \A l \in 1 .. j : SubSeq(q, 1, j)[l] = q[l]
    OBVIOUS
  <2>1. \A l \in 1 .. j : q[l] \in C
    OBVIOUS
  <2>2. 1 \in Int /\ j \in Int /\ j - 1 + 1 = j
    BY <1>0
  <2>3. /\ SubSeq(q, 1, j) \in Seq(C)
        /\ Len(SubSeq(q, 1, j)) = IF 1 <= j THEN j - 1 + 1 ELSE 0
        /\ \A l \in 1 .. j - 1 + 1 : SubSeq(q, 1, j)[l] = q[1 + l - 1]
    BY <2>1, <2>2, SubSeqProperties
  <2> QED BY <1>0, <2>2, <2>3
<1>2. ASSUME NEW j \in 0 .. k PROVE Place(Place(q, k), j) = Place(q, j)
  <2> DEFINE p == SubSeq(q, 1, k)
             s == SubSeq(p, 1, j)
             t == SubSeq(q, 1, j)
  <2>0. j \in 0 .. Len(q) /\ j \in Nat
    BY <1>0
  <2>1. p \in Seq(C) /\ Len(p) = k /\ \A l \in 1 .. k : p[l] = q[l]
    BY <1>1
  <2>2. t \in Seq(C) /\ Len(t) = j /\ \A l \in 1 .. j : t[l] = q[l]
    BY <1>1, <2>0
  <2> HIDE DEF p, t
  <2>3. \A l \in 1 .. j : p[l] \in C
    BY <1>0, <2>1
  <2>4. 1 \in Int /\ j \in Int /\ j - 1 + 1 = j
    BY <2>0
  <2>5. /\ s \in Seq(C)
        /\ Len(s) = IF 1 <= j THEN j - 1 + 1 ELSE 0
        /\ \A l \in 1 .. j - 1 + 1 : s[l] = p[1 + l - 1]
    BY <2>3, <2>4, SubSeqProperties
  <2> HIDE DEF s
  <2>6. Len(s) = j /\ \A l \in 1 .. j : s[l] = q[l]
    BY <1>0, <2>0, <2>1, <2>5
  <2>7. s = t
    BY <2>2, <2>5, <2>6
  <2> QED BY <2>7 DEF Place, s, t, p
<1>3. k = Len(q) => SubSeq(q, 1, k) = q
  BY SubSeqFull
<1>4. k = 0 => SubSeq(q, 1, k) = <<>>
  BY SubSeqEmpty
<1> QED BY <1>1, <1>2, <1>3, <1>4 DEF Place

\* The place below a directory on a path.
LEMMA NextPlace ==
  ASSUME NEW C, NEW q \in Seq(C), NEW k \in 1 .. Len(q)
  PROVE  /\ Place(q, k) # <<>> /\ Parent(Place(q, k)) = Place(q, k - 1)
         /\ Place(q, k)[Len(Place(q, k))] = q[k] /\ Place(q, k) # Place(q, k - 1)
<1>1. k \in Nat /\ k \in 0 .. Len(q) /\ k - 1 \in 0 .. Len(q) /\ k - 1 \in 0 .. k /\ k \in 1 .. k
  OBVIOUS
<1>2. Len(Place(q, k)) = k /\ Place(Place(q, k), k - 1) = Place(q, k - 1) /\ Place(q, k)[k] = q[k]
  BY <1>1, PlaceIs
<1>3. Len(Place(q, k - 1)) = k - 1
  BY <1>1, PlaceIs
<1>4. Len(Place(q, k)) # Len(Place(q, k - 1)) /\ Len(Place(q, k)) # 0
  BY <1>1, <1>2, <1>3
<1> QED BY <1>2, <1>4 DEF Parent

DirNode(K) == [isDir |-> TRUE, exec |-> TRUE, start |-> 0, end |-> 0, children |-> K]
DirInfo == [isDir |-> TRUE, exec |-> TRUE, size |-> 0]
EntriesIn(D, d) == {x[Len(x)] : x \in {x \in D : x # <<>> /\ Parent(x) = d}}
\* What looking up the entries of a directory tells of them.
InfosIn(N, d) == [c \in EntriesIn(DOMAIN N, d) |-> bundleInfo(N[Append(d, c)])]

\* Every node but the root is in a directory, which lists it as what it is, and nothing else.
IsTree(N, C) ==
    /\ N = [x \in DOMAIN N |-> N[x]]
    /\ DOMAIN N \subseteq Seq(C)
    /\ <<>> \in DOMAIN N /\ N[<<>>].isDir
    /\ \A x \in DOMAIN N : x # <<>> => Parent(x) \in DOMAIN N
    /\ \A x \in DOMAIN N : N[x].isDir \in BOOLEAN
    /\ \A x \in DOMAIN N : N[x].isDir => N[x] = DirNode(InfosIn(N, x))

\* Of a directory nothing is told that depends on its entries.
LEMMA DirNodeIs ==
  ASSUME NEW K
  PROVE  DirNode(K).isDir = TRUE /\ DirNode(K).children = K /\ bundleInfo(DirNode(K)) = DirInfo
<1> DEFINE t == TRUE
           n == DirNode(K)
<1>1. n = [isDir |-> t, exec |-> t, start |-> 0, end |-> 0, children |-> K]
  BY DEF DirNode
<1>2. DirInfo = [isDir |-> t, exec |-> t, size |-> 0] /\ t
  BY DEF DirInfo
<1>3. bundleInfo(n) = [isDir |-> n.isDir, exec |-> n.exec, size |-> IF n.isDir THEN 0 ELSE n.end - n.start]
  BY DEF bundleInfo
<1> HIDE DEF t, n
<1>4. n.isDir = t /\ n.exec = t /\ n.children = K
  BY <1>1
<1>5. bundleInfo(n) = DirInfo
  BY <1>2, <1>3, <1>4
<1> QED BY <1>4, <1>5 DEF t, n

\* A place is the entry of its name in its directory.
LEMMA PlaceOfEntry ==
  ASSUME NEW C, NEW x \in Seq(C), x # <<>>
  PROVE  /\ Parent(x) \in Seq(C) /\ x = Append(Parent(x), x[Len(x)])
<1> DEFINE k == Len(x)
           y == SubSeq(x, 1, k - 1)
           z == Append(y, x[k])
<1>0. k \in Nat /\ k # 0 /\ k - 1 \in 0 .. Len(x) /\ k \in 1 .. Len(x) /\ x[k] \in C
  OBVIOUS
<1>1. y \in Seq(C) /\ Len(y) = k - 1 /\ \A j \in 1 .. k - 1 : y[j] = x[j]
  BY <1>0, PlaceIs DEF Place
<1> HIDE DEF y
<1>2. z \in Seq(C) /\ Len(z) = k /\ \A j \in 1 .. k : z[j] = x[j]
  BY <1>0, <1>1
<1> HIDE DEF z
<1>3. x = z
  BY <1>2
<1> QED BY <1>1, <1>3 DEF Parent, Place, y, z

\* The names in a directory of a tree are those of the places below it.
LEMMA EntryIsPlace ==
  ASSUME NEW C, NEW D, D \subseteq Seq(C), NEW d, NEW c \in EntriesIn(D, d)
  PROVE  Append(d, c) \in D /\ Append(d, c) # <<>> /\ Parent(Append(d, c)) = d
<1>1. PICK x \in D : x # <<>> /\ Parent(x) = d /\ c = x[Len(x)]
  BY DEF EntriesIn
<1>2. x = Append(d, c)
  BY <1>1, PlaceOfEntry
<1> QED BY <1>1, <1>2

\* What one more place adds to a directory.
LEMMA EntriesGrow ==
  ASSUME NEW D, NEW p, p # <<>>, NEW d
  PROVE  EntriesIn(D \union {p}, d) = EntriesIn(D, d) \union IF Parent(p) = d THEN {p[Len(p)]} ELSE {}
  BY DEF EntriesIn

\* A new directory has no entries.
LEMMA FreshHasNone ==
  ASSUME NEW N, NEW C, IsTree(N, C), NEW p, p \notin DOMAIN N
  PROVE  EntriesIn(DOMAIN N, p) = {}
  BY DEF EntriesIn, IsTree

\* A tree with a directory or a file more: at p, with the entry in the directory d.
IsExtended(M, N, d, p, node) ==
    /\ M = [x \in DOMAIN M |-> M[x]]
    /\ DOMAIN M = DOMAIN N \union {p}
    /\ M[p] = node
    /\ \A x \in DOMAIN N \ {p} :
          M[x] = IF x = d THEN DirNode(With(InfosIn(N, d), p[Len(p)], bundleInfo(node))) ELSE N[x]

\* The nodes other than p are what they were, up to the entries of directories.
KeepsNodes(M, N, p) ==
    \A x \in DOMAIN N \ {p} : M[x].isDir = N[x].isDir /\ (~N[x].isDir => M[x] = N[x])

\* M has the place p more than N, and tells the same of the others.
TellsSame(M, N, p) ==
    DOMAIN M = DOMAIN N \union {p} /\ \A x \in DOMAIN N \ {p} : bundleInfo(M[x]) = bundleInfo(N[x])

\* The entries of the directory that has one more are those that it should list.
LEMMA EntriesExtended ==
  ASSUME NEW C, NEW N, IsTree(N, C), NEW p \in Seq(C), p # <<>>, NEW d, Parent(p) = d,
         NEW M, TellsSame(M, N, p)
  PROVE  InfosIn(M, d) = With(InfosIn(N, d), p[Len(p)], bundleInfo(M[p]))
<1> DEFINE a == p[Len(p)]
           J == InfosIn(N, d)
           K == InfosIn(M, d)
           W == With(J, a, bundleInfo(M[p]))
<1>0. /\ p = Append(d, a) /\ DOMAIN N \subseteq Seq(C) /\ DOMAIN M = DOMAIN N \union {p}
      /\ \A x \in DOMAIN N \ {p} : bundleInfo(M[x]) = bundleInfo(N[x])
  BY PlaceOfEntry DEF IsTree, TellsSame
<1>1. EntriesIn(DOMAIN M, d) = EntriesIn(DOMAIN N, d) \union {a}
  BY <1>0, EntriesGrow
<1> HIDE DEF a
<1>2. /\ J = [c \in EntriesIn(DOMAIN N, d) |-> bundleInfo(N[Append(d, c)])]
      /\ K = [c \in EntriesIn(DOMAIN M, d) |-> bundleInfo(M[Append(d, c)])]
  BY DEF InfosIn
<1> HIDE DEF J, K
<1>3. W = [c \in EntriesIn(DOMAIN M, d) |-> IF c = a THEN bundleInfo(M[p]) ELSE J[c]]
  BY <1>1, <1>2 DEF With
<1>4. ASSUME NEW c \in EntriesIn(DOMAIN M, d)
      PROVE  bundleInfo(M[Append(d, c)]) = IF c = a THEN bundleInfo(M[p]) ELSE J[c]
  <2>1. CASE c = a
    BY <1>0, <2>1
  <2>2. CASE c # a
    <3>1. c \in EntriesIn(DOMAIN N, d) /\ J[c] = bundleInfo(N[Append(d, c)])
      BY <1>1, <1>2, <1>4, <2>2
    <3>2. Append(d, c) \in DOMAIN N
      BY <1>0, <3>1, EntryIsPlace
    <3>3. CASE Append(d, c) = p
      <4>1. PICK x \in DOMAIN N : x # <<>> /\ Parent(x) = d /\ c = x[Len(x)]
        BY <3>1 DEF EntriesIn
      <4>2. x = Append(d, c)
        BY <1>0, <4>1, PlaceOfEntry
      <4> QED BY <2>2, <3>3, <4>1, <4>2 DEF a
    <3>4. CASE Append(d, c) # p
      BY <1>0, <2>2, <3>1, <3>2, <3>4
    <3> QED BY <3>3, <3>4
  <2> QED BY <2>1, <2>2
<1> HIDE DEF W
<1>5. K = W
  BY <1>2, <1>3, <1>4
<1> QED BY <1>5 DEF K, W, J, a

\* It is a tree again.
LEMMA ExtendedIsTree ==
  ASSUME NEW C, NEW N, IsTree(N, C), NEW p \in Seq(C), p # <<>>, NEW d \in DOMAIN N, d # p, Parent(p) = d,
         NEW node, node.isDir \in BOOLEAN, node.isDir => node = DirNode(NoEntries) /\ p \notin DOMAIN N,
         N[d].isDir, NEW M, IsExtended(M, N, d, p, node)
  PROVE  IsTree(M, C) /\ KeepsNodes(M, N, p)
<1> DEFINE K == With(InfosIn(N, d), p[Len(p)], bundleInfo(node))
<1>0. DirNode(K).isDir = TRUE /\ bundleInfo(DirNode(K)) = DirInfo /\ bundleInfo(N[d]) = DirInfo
  <2>1. N[d] = DirNode(InfosIn(N, d))
    BY DEF IsTree
  <2>2. bundleInfo(DirNode(InfosIn(N, d))) = DirInfo
    BY DirNodeIs
  <2> HIDE DEF K
  <2>3. DirNode(K).isDir = TRUE /\ bundleInfo(DirNode(K)) = DirInfo
    BY DirNodeIs
  <2> QED BY <2>1, <2>2, <2>3
<1>1. /\ DOMAIN M = DOMAIN N \union {p} /\ M[p] = node /\ M[d] = DirNode(K)
      /\ \A x \in DOMAIN N : x # p /\ x # d => M[x] = N[x]
  BY DEF IsExtended
<1>2. \A x \in DOMAIN N : x # p => /\ M[x].isDir = N[x].isDir /\ (~N[x].isDir => M[x] = N[x])
                                   /\ bundleInfo(M[x]) = bundleInfo(N[x])
  <2> HIDE DEF K
  <2>1. N[d].isDir = TRUE /\ M[d].isDir = TRUE
    <3>1. N[d].isDir \in BOOLEAN
      BY DEF IsTree
    <3> QED BY <1>0, <1>1, <3>1
  <2> QED BY <1>0, <1>1, <2>1
<1>3. \A x \in DOMAIN M : M[x].isDir => M[x] = DirNode(InfosIn(M, x))
  <2> SUFFICES ASSUME NEW x \in DOMAIN M, M[x].isDir PROVE M[x] = DirNode(InfosIn(M, x))
    OBVIOUS
  <2>1. CASE x = d
    <3>1. InfosIn(M, d) = With(InfosIn(N, d), p[Len(p)], bundleInfo(M[p]))
      <4>1. TellsSame(M, N, p)
        BY <1>1, <1>2 DEF TellsSame
      <4> QED BY <4>1, EntriesExtended
    <3>2. InfosIn(M, d) = K
      BY <1>1, <3>1
    <3> QED BY <1>1, <2>1, <3>2
  <2>2. CASE x # d
    <3>1. EntriesIn(DOMAIN M, x) = EntriesIn(DOMAIN N, x)
      <4>1. Parent(p) # x
        BY <2>2
      <4>2. EntriesIn(DOMAIN N \union {p}, x) = EntriesIn(DOMAIN N, x) \union {}
        BY <4>1, EntriesGrow
      <4> QED BY <1>1, <4>2
    <3>2. CASE x = p
      <4>1. M[x] = DirNode(NoEntries) /\ p \notin DOMAIN N
        BY <1>1, <2>2, <3>2
      <4>2. EntriesIn(DOMAIN M, x) = {}
        BY <3>1, <3>2, <4>1, FreshHasNone
      <4>3. InfosIn(M, x) = NoEntries
        BY <4>2 DEF InfosIn, NoEntries
      <4> QED BY <4>1, <4>3
    <3>3. CASE x # p
      <4>1. x \in DOMAIN N /\ M[x] = N[x]
        BY <1>1, <2>2, <3>3
      <4>2. \A c \in EntriesIn(DOMAIN N, x) : bundleInfo(M[Append(x, c)]) = bundleInfo(N[Append(x, c)])
        <5>1. \A c \in EntriesIn(DOMAIN N, x) : Append(x, c) \in DOMAIN N /\ Parent(Append(x, c)) = x
          BY EntryIsPlace DEF IsTree
        <5> QED BY <1>2, <2>2, <5>1
      <4>3. InfosIn(M, x) = InfosIn(N, x)
        BY <3>1, <4>2 DEF InfosIn
      <4> QED BY <4>1, <4>3 DEF IsTree
    <3> QED BY <3>2, <3>3
  <2> QED BY <2>1, <2>2
<1>4. \A x \in DOMAIN M : M[x].isDir \in BOOLEAN
  <2> SUFFICES ASSUME NEW x \in DOMAIN M PROVE M[x].isDir \in BOOLEAN
    OBVIOUS
  <2>1. CASE x = p
    BY <1>1, <2>1
  <2>2. CASE x # p
    BY <1>1, <1>2, <2>2 DEF IsTree
  <2> QED BY <2>1, <2>2
<1>5. <<>> \in DOMAIN M /\ M[<<>>].isDir
  BY <1>1, <1>2 DEF IsTree
<1>6. \A x \in DOMAIN M : x # <<>> => Parent(x) \in DOMAIN M
  BY <1>1 DEF IsTree
<1>7. DOMAIN M \subseteq Seq(C) /\ M = [x \in DOMAIN M |-> M[x]]
  BY <1>1 DEF IsTree, IsExtended
<1>8. IsTree(M, C)
  BY <1>3, <1>4, <1>5, <1>6, <1>7 DEF IsTree
<1> QED BY <1>2, <1>8 DEF KeepsNodes

\* The entry of one place in the directory above it.
IsEntered(E, N, q, k, child) ==
    LET d == Place(q, k - 1) IN
    /\ E = [x \in DOMAIN E |-> E[x]] /\ DOMAIN E = DOMAIN N
    /\ \A x \in DOMAIN N : E[x] = IF x = d THEN DirNode(With(InfosIn(N, d), q[k], bundleInfo(child))) ELSE N[x]

LEMMA EntryIs ==
  ASSUME NEW C, NEW N, IsTree(N, C), NEW q \in Seq(C), NEW k \in 1 .. Len(q), NEW child,
         Place(q, k - 1) \in DOMAIN N, N[Place(q, k - 1)].isDir
  PROVE  IsEntered(EntryAt(N, q, k, child), N, q, k, child)
<1> DEFINE d == Place(q, k - 1)
           K == InfosIn(N, d)
           J == With(K, q[k], bundleInfo(child))
           E == EntryAt(N, q, k, child)
<1>2. N[d] = DirNode(K) /\ N = [x \in DOMAIN N |-> N[x]] /\ d \in DOMAIN N
  BY DEF IsTree
<1> HIDE DEF K
<1>4. [N[d] EXCEPT !.children = With(@, q[k], bundleInfo(child))] = DirNode(J)
  <2> DEFINE c == q[k]
             info == bundleInfo(child)
  <2> HIDE DEF d, c, info
  <2>1. DirNode(K).children = K
    BY DirNodeIs
  <2>2. ASSUME NEW I PROVE [DirNode(K) EXCEPT !.children = I] = DirNode(I)
    <3> DEFINE t == TRUE
    <3>1. \A L : DirNode(L) = [isDir |-> t, exec |-> t, start |-> 0, end |-> 0, children |-> L]
      BY DEF DirNode
    <3> HIDE DEF t
    <3>2. [[isDir |-> t, exec |-> t, start |-> 0, end |-> 0, children |-> K] EXCEPT !.children = I]
          = [isDir |-> t, exec |-> t, start |-> 0, end |-> 0, children |-> I]
      OBVIOUS
    <3> QED BY <3>1, <3>2
  <2>3. [N[d] EXCEPT !.children = With(@, c, info)] = [DirNode(K) EXCEPT !.children = With(K, c, info)]
    BY <1>2, <2>1
  <2>4. [DirNode(K) EXCEPT !.children = With(K, c, info)] = DirNode(With(K, c, info))
    BY <2>2
  <2> QED BY <2>3, <2>4 DEF c, info
<1>5. E = [N EXCEPT ![d] = [N[d] EXCEPT !.children = With(@, q[k], bundleInfo(child))]]
  BY DEF EntryAt
<1> HIDE DEF J
<1>6. E = [N EXCEPT ![d] = DirNode(J)]
  BY <1>4, <1>5
<1>7. /\ E = [x \in DOMAIN E |-> E[x]] /\ DOMAIN E = DOMAIN N
      /\ \A x \in DOMAIN N : E[x] = IF x = d THEN DirNode(J) ELSE N[x]
  <2> HIDE DEF E, d
  <2> QED BY <1>2, <1>6
<1>8. IsEntered(E, N, q, k, child)
  <2> HIDE DEF E
  <2> QED BY <1>7 DEF IsEntered, J, K
<1> QED BY <1>8

\* A node put into the tree behind the entry made for it.
LEMMA WithEntry ==
  ASSUME NEW C, NEW N, IsTree(N, C), NEW q \in Seq(C), NEW k \in 1 .. Len(q),
         Place(q, k - 1) \in DOMAIN N, N[Place(q, k - 1)].isDir, NEW node
  PROVE  IsExtended(With(EntryAt(N, q, k, node), Place(q, k), node), N, Place(q, k - 1), Place(q, k), node)
<1> DEFINE d == Place(q, k - 1)
           p == Place(q, k)
           E == EntryAt(N, q, k, node)
           M == With(E, p, node)
<1>1. /\ DOMAIN E = DOMAIN N
      /\ \A x \in DOMAIN N : E[x] = IF x = d THEN DirNode(With(InfosIn(N, d), p[Len(p)], bundleInfo(node))) ELSE N[x]
  <2>1. p[Len(p)] = q[k]
    BY NextPlace
  <2> HIDE DEF E, p
  <2>2. IsEntered(E, N, q, k, node)
    BY EntryIs DEF E
  <2> QED BY <2>1, <2>2 DEF IsEntered
<1> HIDE DEF E, p, d
<1>2. M = [x \in DOMAIN N \union {p} |-> IF x = p THEN node ELSE E[x]]
  BY <1>1 DEF With
<1> HIDE DEF M
<1>3. IsExtended(M, N, d, p, node)
  BY <1>1, <1>2 DEF IsExtended
<1> QED BY <1>3 DEF M, E, p, d

HasDirectory(M, N, C, p) ==
    /\ IsTree(M, C) /\ DOMAIN M = DOMAIN N \union {p} /\ M[p].isDir
    /\ \A x \in DOMAIN N : M[x].isDir = N[x].isDir /\ (~N[x].isDir => M[x] = N[x])
HasFile(M, N, C, p, node) ==
    IsTree(M, C) /\ DOMAIN M = DOMAIN N \union {p} /\ M[p] = node /\ KeepsNodes(M, N, p)

\* A directory on the way: there already, or made now.
LEMMA EntersDirectory ==
  ASSUME NEW C, NEW N, IsTree(N, C), NEW q \in Seq(C), NEW k \in 1 .. Len(q) - 1, NEW node,
         Place(q, k - 1) \in DOMAIN N, N[Place(q, k - 1)].isDir, Place(q, k) \in DOMAIN N => N[Place(q, k)].isDir
  PROVE  HasDirectory(EnterPart(N, q, k, node), N, C, Place(q, k))
<1> DEFINE d == Place(q, k - 1)
           p == Place(q, k)
           E == EntryAt(N, q, k, Root)
           M == EnterPart(N, q, k, node)
<1>0. Len(q) \in Nat /\ k \in 1 .. Len(q) /\ k # Len(q) /\ k \in 0 .. Len(q)
  OBVIOUS
<1>1. p \in Seq(C) /\ p # <<>> /\ Parent(p) = d /\ p # d /\ p[Len(p)] = q[k]
  <2>1. p \in Seq(C)
    BY <1>0, PlaceIs
  <2>2. p # <<>> /\ Parent(p) = d /\ p # d /\ p[Len(p)] = q[k]
    BY <1>0, NextPlace
  <2> HIDE DEF p, d
  <2> QED BY <2>1, <2>2
<1>2. M = IF q[k] \in DOMAIN N[d].children THEN N ELSE With(E, p, Root)
  BY <1>0 DEF EnterPart
\* The directory lists the place if there is one.
<1>3. q[k] \in DOMAIN N[d].children <=> p \in DOMAIN N
  <2> HIDE DEF p, E, M
  <2>1. N[d] = DirNode(InfosIn(N, d)) /\ DOMAIN N \subseteq Seq(C)
    BY DEF IsTree, d
  <2> HIDE DEF d
  <2>2. N[d].children = InfosIn(N, d)
    BY <2>1, DirNodeIs
  <2>3. DOMAIN N[d].children = EntriesIn(DOMAIN N, d)
    BY <2>2 DEF InfosIn
  <2>4. ASSUME p \in DOMAIN N PROVE q[k] \in EntriesIn(DOMAIN N, d)
    BY <1>1, <2>4 DEF EntriesIn
  <2>5. ASSUME q[k] \in EntriesIn(DOMAIN N, d) PROVE p \in DOMAIN N
    <3>1. Append(d, q[k]) \in DOMAIN N
      BY <2>1, <2>5, EntryIsPlace
    <3>2. p = Append(d, q[k])
      BY <1>1, PlaceOfEntry
    <3> QED BY <3>1, <3>2
  <2> QED BY <2>3, <2>4, <2>5
<1>4. CASE p \in DOMAIN N
  <2>1. M = N /\ N[p].isDir
    BY <1>2, <1>3, <1>4
  <2> HIDE DEF p, d, M
  <2> QED BY <1>4, <2>1 DEF M, p, HasDirectory
<1>5. CASE p \notin DOMAIN N
  <2>1. Root = DirNode(NoEntries) /\ Root.isDir \in BOOLEAN /\ Root.isDir
    BY DEF Root, DirNode
  <2>2. M = With(E, p, Root)
    BY <1>2, <1>3, <1>5
  <2>3. IsExtended(M, N, d, p, Root)
    BY <1>0, <2>2, WithEntry
  <2> HIDE DEF E, p, d, M
  <2>4. IsTree(M, C) /\ KeepsNodes(M, N, p)
    <3>1. d \in DOMAIN N /\ N[d].isDir
      BY DEF d
    <3>2. IsTree(N, C) /\ p \in Seq(C) /\ p # <<>> /\ d # p /\ Parent(p) = d
      BY <1>1
    <3>3. Root.isDir => Root = DirNode(NoEntries) /\ p \notin DOMAIN N
      BY <1>5, <2>1
    <3>4. Root.isDir \in BOOLEAN
      BY <2>1
    <3> QED BY <2>3, <3>1, <3>2, <3>3, <3>4, ExtendedIsTree
  <2>5. M[p] = Root /\ DOMAIN M = DOMAIN N \union {p}
    BY <2>3 DEF IsExtended
  <2>6. M[p].isDir /\ \A x \in DOMAIN N : x # p
    BY <1>5, <2>1, <2>5
  <2> QED BY <2>4, <2>5, <2>6 DEF M, p, KeepsNodes, HasDirectory
<1> QED BY <1>4, <1>5

\* The file at the end of the path, new or in place of the one that was there.
LEMMA EntersFile ==
  ASSUME NEW C, NEW N, IsTree(N, C), NEW q \in Seq(C), q # <<>>, NEW node, node.isDir \in BOOLEAN, ~node.isDir,
         Place(q, Len(q) - 1) \in DOMAIN N, N[Place(q, Len(q) - 1)].isDir
  PROVE  HasFile(EnterPart(N, q, Len(q), node), N, C, q, node)
<1> DEFINE k == Len(q)
           d == Place(q, k - 1)
           M == EnterPart(N, q, k, node)
<1>0. k \in 1 .. Len(q) /\ k \in 0 .. Len(q)
  OBVIOUS
<1>1. Place(q, k) = q
  BY <1>0, PlaceIs
<1>2. Parent(q) = d /\ q # d
  BY <1>0, <1>1, NextPlace
<1>3. M = With(EntryAt(N, q, k, node), q, node)
  BY <1>1 DEF EnterPart
<1>4. IsExtended(M, N, d, q, node)
  BY <1>0, <1>1, <1>3, WithEntry
<1> HIDE DEF M, d
<1>5. IsTree(M, C) /\ KeepsNodes(M, N, q)
  <2>1. d \in DOMAIN N /\ N[d].isDir
    BY DEF d
  <2> QED BY <1>2, <1>4, <2>1, ExtendedIsTree
<1>6. M[q] = node /\ DOMAIN M = DOMAIN N \union {q}
  BY <1>4 DEF IsExtended
<1> QED BY <1>5, <1>6 DEF M, HasFile

\* A path that is free for a file: what is above it are directories, what is at it is not.
FreeFor(N, q) ==
    /\ \A k \in 0 .. Len(q) - 1 : Place(q, k) \in DOMAIN N => N[Place(q, k)].isDir
    /\ q \in DOMAIN N => ~N[q].isDir
PlacesOf(q) == {Place(q, k) : k \in 0 .. Len(q)}

\* insert, after it has been through the first k components of q.
HasEntered(E, N, C, q, k) ==
    /\ IsTree(E, C)
    /\ DOMAIN E = DOMAIN N \union {Place(q, j) : j \in 0 .. k}
    /\ \A j \in 0 .. k : E[Place(q, j)].isDir
    /\ \A x \in DOMAIN N : E[x].isDir = N[x].isDir /\ (~N[x].isDir => E[x] = N[x])

\* insert makes the file and the directories above it, and keeps what there is.
IsInserted(M, N, C, q, node) ==
    /\ IsTree(M, C)
    /\ DOMAIN M = DOMAIN N \union PlacesOf(q)
    /\ M[q] = node
    /\ \A k \in 0 .. Len(q) - 1 : M[Place(q, k)].isDir
    /\ KeepsNodes(M, N, q)

LEMMA InsertGrafts ==
  ASSUME NEW C, NEW N, IsTree(N, C), NEW q \in Seq(C), q # <<>>, FreeFor(N, q),
         NEW node, node.isDir \in BOOLEAN, ~node.isDir
  PROVE  IsInserted(insert(N, q, node), N, C, q, node)
<1> DEFINE R == Entering(N, q, node)
           L == Len(q)
           S == {k \in 0 .. L - 1 : HasEntered(R[k], N, C, q, k)}
<1>0. L \in Nat /\ L # 0 /\ L - 1 \in Nat /\ 0 \in 0 .. L - 1
  OBVIOUS
<1>1. R[0] = N /\ \A k \in 1 .. L : R[k] = EnterPart(R[k - 1], q, k, node)
  BY EnteringEquation
<1>2. insert(N, q, node) = R[L]
  BY DEF insert
<1> HIDE DEF R
<1>3. 0 \in S
  <2>1. Place(q, 0) = <<>>
    BY <1>0, PlaceIs
  <2>2. \A j \in 0 .. 0 : j = 0
    OBVIOUS
  <2>3. {Place(q, j) : j \in 0 .. 0} = {<<>>} /\ <<>> \in DOMAIN N /\ N[<<>>].isDir
    BY <2>1, <2>2 DEF IsTree
  <2>4. DOMAIN N = DOMAIN N \union {Place(q, j) : j \in 0 .. 0} /\ \A j \in 0 .. 0 : N[Place(q, j)].isDir
    BY <2>1, <2>2, <2>3
  <2>5. HasEntered(N, N, C, q, 0)
    BY <2>4 DEF HasEntered
  <2> QED BY <1>0, <1>1, <2>5
<1>4. ASSUME NEW k \in 0 .. L - 1 - 1, k \in S PROVE k + 1 \in S
  <2> DEFINE E == R[k]
             M == R[k + 1]
             j == k + 1
             p == Place(q, j)
  <2>1. j \in 1 .. L /\ j - 1 = k /\ j \in 1 .. Len(q) - 1 /\ j \in 0 .. L - 1 /\ k \in 0 .. L - 1 /\ k \in 0 .. k
    BY <1>0
  <2>2. M = EnterPart(E, q, j, node) /\ HasEntered(E, N, C, q, k)
    BY <1>1, <1>4, <2>1
  <2> HIDE DEF E, M
  <2>3. Place(q, j - 1) \in DOMAIN E /\ E[Place(q, j - 1)].isDir /\ IsTree(E, C)
    BY <2>1, <2>2 DEF HasEntered
  <2>4. p \in DOMAIN E => E[p].isDir
    <3>1. ASSUME NEW l \in 0 .. k PROVE p # Place(q, l)
      <4>1. Len(p) = j /\ Len(Place(q, l)) = l /\ j # l
        BY <1>0, <2>1, PlaceIs
      <4> QED BY <4>1
    <3>2. p \in DOMAIN E => p \in DOMAIN N
      BY <2>2, <3>1 DEF HasEntered
    <3>3. p \in DOMAIN N => N[p].isDir
      BY <2>1 DEF FreeFor
    <3> QED BY <2>2, <3>2, <3>3 DEF HasEntered
  <2>5. /\ IsTree(M, C) /\ DOMAIN M = DOMAIN E \union {p} /\ M[p].isDir
        /\ \A x \in DOMAIN E : M[x].isDir = E[x].isDir /\ (~E[x].isDir => M[x] = E[x])
    <3>1. HasDirectory(M, E, C, p)
      BY <2>1, <2>2, <2>3, <2>4, EntersDirectory
    <3> QED BY <3>1 DEF HasDirectory
  <2>6. DOMAIN M = DOMAIN N \union {Place(q, l) : l \in 0 .. j}
    <3>1. \A l \in 0 .. j : l \in 0 .. k \/ l = j
      BY <2>1
    <3>2. \A l \in 0 .. k : l \in 0 .. j
      BY <2>1
    <3>3. j \in 0 .. j
      BY <2>1
    <3> HIDE DEF j
    <3>4. {Place(q, l) : l \in 0 .. j} = {Place(q, l) : l \in 0 .. k} \union {p}
      BY <3>1, <3>2, <3>3
    <3> QED BY <2>2, <2>5, <3>4 DEF HasEntered
  <2>7. \A l \in 0 .. j : M[Place(q, l)].isDir
    <3> SUFFICES ASSUME NEW l \in 0 .. j PROVE M[Place(q, l)].isDir
      OBVIOUS
    <3>1. CASE l = j
      BY <2>5, <3>1
    <3>2. CASE l \in 0 .. k
      BY <2>2, <2>5, <3>2 DEF HasEntered
    <3> QED BY <2>1, <3>1, <3>2
  <2>8. \A x \in DOMAIN N : M[x].isDir = N[x].isDir /\ (~N[x].isDir => M[x] = N[x])
    <3> SUFFICES ASSUME NEW x \in DOMAIN N PROVE M[x].isDir = N[x].isDir /\ (~N[x].isDir => M[x] = N[x])
      OBVIOUS
    <3>1. x \in DOMAIN E /\ E[x].isDir = N[x].isDir /\ (~N[x].isDir => E[x] = N[x])
      BY <2>2 DEF HasEntered
    <3>2. M[x].isDir = E[x].isDir /\ (~E[x].isDir => M[x] = E[x])
      BY <2>5, <3>1
    <3> QED BY <3>1, <3>2
  <2>9. HasEntered(M, N, C, q, j)
    <3> HIDE DEF j, p
    <3> QED BY <2>5, <2>6, <2>7, <2>8 DEF HasEntered
  <2> QED BY <2>1, <2>9 DEF M
<1>5. L - 1 \in S
  <2> DEFINE T == L - 1
  <2>1. T \in Nat
    BY <1>0
  <2>2. \A k \in 0 .. T - 1 : k \in S => k + 1 \in S
    BY <1>4
  <2> HIDE DEF S, T
  <2>3. \A k \in 0 .. T : k \in S
    BY <1>3, <2>1, <2>2, UpTo
  <2> QED BY <2>1, <2>3 DEF T
<1> DEFINE E == R[L - 1]
           M == R[L]
<1>6. HasEntered(E, N, C, q, L - 1) /\ M = EnterPart(E, q, Len(q), node)
  BY <1>0, <1>1, <1>5
<1> HIDE DEF E, M
<1>7. ASSUME NEW l \in 0 .. L - 1 PROVE q # Place(q, l)
  <2>1. Len(Place(q, l)) = l /\ l # L
    BY <1>0, PlaceIs
  <2> QED BY <2>1
<1>8. Place(q, L - 1) \in DOMAIN E /\ E[Place(q, L - 1)].isDir /\ IsTree(E, C)
  <2>1. L - 1 \in 0 .. L - 1
    BY <1>0
  <2> QED BY <1>6, <2>1 DEF HasEntered
<1>9. /\ IsTree(M, C) /\ DOMAIN M = DOMAIN E \union {q} /\ M[q] = node
      /\ \A x \in DOMAIN E \ {q} : M[x].isDir = E[x].isDir /\ (~E[x].isDir => M[x] = E[x])
  <2>1. HasFile(M, E, C, q, node)
    BY <1>6, <1>8, EntersFile
  <2> QED BY <2>1 DEF HasFile, KeepsNodes
<1>10. DOMAIN M = DOMAIN N \union PlacesOf(q)
  <2>1. Place(q, L) = q
    BY <1>0, PlaceIs
  <2>2. \A l \in 0 .. L : l \in 0 .. L - 1 \/ l = L
    BY <1>0
  <2>3. L \in 0 .. L /\ \A l \in 0 .. L - 1 : l \in 0 .. L
    BY <1>0
  <2>4. PlacesOf(q) = {Place(q, l) : l \in 0 .. L - 1} \union {q}
    BY <2>1, <2>2, <2>3 DEF PlacesOf
  <2> HIDE DEF L
  <2> QED BY <1>6, <1>9, <2>4 DEF HasEntered
<1>11. \A l \in 0 .. L - 1 : M[Place(q, l)].isDir
  BY <1>6, <1>7, <1>9 DEF HasEntered
<1>12. KeepsNodes(M, N, q)
  <2> SUFFICES ASSUME NEW x \in DOMAIN N \ {q} PROVE M[x].isDir = N[x].isDir /\ (~N[x].isDir => M[x] = N[x])
    BY DEF KeepsNodes
  <2>1. x \in DOMAIN E \ {q} /\ E[x].isDir = N[x].isDir /\ (~N[x].isDir => E[x] = N[x])
    BY <1>6 DEF HasEntered
  <2>2. M[x].isDir = E[x].isDir /\ (~E[x].isDir => M[x] = E[x])
    BY <1>9, <2>1
  <2> QED BY <2>1, <2>2
<1>13. IsInserted(M, N, C, q, node)
  BY <1>9, <1>10, <1>11, <1>12 DEF IsInserted
<1> QED BY <1>2, <1>13 DEF M

----------------------------------------------------------------------------
(* The manifest.                                                           *)

Entries(C) == [file : Seq(C), start : Int, end : Int]

\* The nodes after the first m entries.
HasLoaded(N, C, manifest, m) ==
    /\ IsTree(N, C)
    /\ \A x : x \in DOMAIN N <=> x = <<>> \/ \E j \in 1 .. m : x \in PlacesOf(PathOf(manifest, j))
    /\ \A x \in DOMAIN N : ~N[x].isDir <=> \E j \in 1 .. m : x = PathOf(manifest, j)
    /\ \A j \in 1 .. m : (\A l \in j + 1 .. m : PathOf(manifest, l) # PathOf(manifest, j))
                            => N[PathOf(manifest, j)] = NodeOf(manifest[j])

\* The paths of a manifest are paths, and in a sound one files.
LEMMA PathsArePaths ==
  ASSUME NEW C, NEW manifest \in Seq(Entries(C)), NEW j \in 1 .. Len(manifest)
  PROVE  PathOf(manifest, j) \in Seq(C) /\ PathOf(manifest, j) \in PathsOf(manifest)
<1>1. j \in DOMAIN manifest /\ manifest[j] \in Entries(C)
  OBVIOUS
<1>2. manifest[j].file \in Seq(C)
  BY <1>1 DEF Entries
<1>3. Clean(manifest[j].file) \in Seq(C)
  BY <1>2, CleanType
<1> QED BY <1>1, <1>3 DEF PathOf, PathsOf

\* What is above a path of a sound manifest is none of its paths.
LEMMA AboveIsNoPath ==
  ASSUME NEW C, NEW manifest \in Seq(Entries(C)), Sound(manifest),
         NEW p \in PathsOf(manifest), p \in Seq(C), NEW k \in 0 .. Len(p) - 1
  PROVE  Place(p, k) \notin PathsOf(manifest)
<1>1. k \in Nat /\ k \in 0 .. Len(p) /\ k <= Len(p) /\ k # Len(p)
  OBVIOUS
<1>2. Place(p, k) \in Seq(C) /\ Len(Place(p, k)) = k /\ k \in 0 .. k
  BY <1>1, PlaceIs
<1>3. Place(p, k) # p
  BY <1>1, <1>2
<1>4. SubSeq(Place(p, k), 1, k) = Place(p, k)
  BY <1>2, SubSeqFull
<1>5. IsStrictPrefix(Place(p, k), p)
  <2>1. SubSeq(p, 1, k) = Place(p, k)
    BY DEF Place
  <2> QED BY <1>1, <1>2, <1>3, <1>4, <2>1 DEF IsStrictPrefix, IsPrefix
<1> QED BY <1>3, <1>5 DEF Sound

LEMMA NodeIsFile == \A e : NodeOf(e).isDir \in BOOLEAN /\ ~NodeOf(e).isDir
  BY DEF NodeOf, FileNode

\* The next entry of a sound manifest finds its path free, and is loaded.
LEMMA LoadsEntry ==
  ASSUME NEW C, NEW manifest \in Seq(Entries(C)), Sound(manifest),
         NEW m \in 0 .. Len(manifest) - 1, NEW N, HasLoaded(N, C, manifest, m)
  PROVE  HasLoaded(insert(N, PathOf(manifest, m + 1), NodeOf(manifest[m + 1])), C, manifest, m + 1)
<1> DEFINE q == PathOf(manifest, m + 1)
           node == NodeOf(manifest[m + 1])
           M == insert(N, q, node)
           P(j) == PathOf(manifest, j)
<1>0. /\ m \in Nat /\ m + 1 \in Nat /\ m + 1 \in 1 .. Len(manifest)
      /\ \A j \in 1 .. m : j \in 1 .. Len(manifest) /\ j \in 1 .. m + 1
      /\ \A j \in 1 .. m + 1 : j \in 1 .. m \/ j = m + 1
      /\ m + 1 \in 1 .. m + 1
  OBVIOUS
<1>1. q \in Seq(C) /\ q \in PathsOf(manifest) /\ \A j \in 1 .. m : P(j) \in Seq(C) /\ P(j) \in PathsOf(manifest)
  BY <1>0, PathsArePaths
<1>2. q # <<>> /\ Len(q) \in Nat
  BY <1>1 DEF Sound
<1>3. node.isDir \in BOOLEAN /\ ~node.isDir
  BY NodeIsFile
<1> HIDE DEF q, node, P
<1>4. FreeFor(N, q)
  <2>1. ASSUME NEW k \in 0 .. Len(q) - 1, Place(q, k) \in DOMAIN N PROVE N[Place(q, k)].isDir
    <3>1. Place(q, k) \notin PathsOf(manifest)
      BY <1>1, AboveIsNoPath
    <3>2. \A j \in 1 .. m : Place(q, k) # P(j)
      BY <1>1, <3>1
    <3> QED BY <2>1, <3>2 DEF HasLoaded, P
  <2>2. ASSUME q \in DOMAIN N PROVE ~N[q].isDir
    <3>1. PICK j \in 1 .. m : q \in PlacesOf(P(j))
      BY <1>2, <2>2 DEF HasLoaded, P
    <3>2. PICK k \in 0 .. Len(P(j)) : q = Place(P(j), k)
      BY <3>1 DEF PlacesOf
    <3>3. CASE k = Len(P(j))
      <4>1. q = P(j)
        BY <1>1, <3>2, <3>3, PlaceIs
      <4> QED BY <2>2, <4>1 DEF HasLoaded, P
    <3>4. CASE k # Len(P(j))
      <4>1. k \in 0 .. Len(P(j)) - 1
        BY <1>1, <3>4
      <4>2. q \notin PathsOf(manifest)
        BY <1>1, <3>2, <4>1, AboveIsNoPath
      <4> QED BY <1>1, <4>2
    <3> QED BY <3>3, <3>4
  <2> QED BY <2>1, <2>2 DEF FreeFor
<1>5. IsInserted(M, N, C, q, node)
  BY <1>1, <1>2, <1>3, <1>4, InsertGrafts DEF HasLoaded
<1> HIDE DEF M
<1>6. IsTree(M, C) /\ DOMAIN M = DOMAIN N \union PlacesOf(q) /\ M[q] = node /\ KeepsNodes(M, N, q)
  BY <1>5 DEF IsInserted
<1>7. ASSUME NEW x PROVE x \in DOMAIN M <=> x = <<>> \/ \E j \in 1 .. m + 1 : x \in PlacesOf(P(j))
  <2>1. x \in DOMAIN N <=> x = <<>> \/ \E j \in 1 .. m : x \in PlacesOf(P(j))
    BY DEF HasLoaded, P
  <2>2. q = P(m + 1)
    BY DEF P, q
  <2> QED BY <1>0, <1>6, <2>1, <2>2
<1>8. ASSUME NEW x \in DOMAIN M PROVE ~M[x].isDir <=> \E j \in 1 .. m + 1 : x = P(j)
  <2>1. q = P(m + 1)
    BY DEF P, q
  <2>2. CASE x = q
    <3>1. ~M[x].isDir
      BY <1>3, <1>6, <2>2
    <3> QED BY <1>0, <2>1, <2>2, <3>1
  <2>3. CASE x # q /\ x \in DOMAIN N
    <3>1. M[x].isDir = N[x].isDir
      BY <1>6, <2>3 DEF KeepsNodes
    <3>2. ~N[x].isDir <=> \E j \in 1 .. m : x = P(j)
      BY <2>3 DEF HasLoaded, P
    <3> QED BY <1>0, <2>1, <2>3, <3>1, <3>2
  <2>4. CASE x # q /\ x \notin DOMAIN N
    <3>1. PICK k \in 0 .. Len(q) : x = Place(q, k)
      BY <1>6, <2>4 DEF PlacesOf
    <3>2. k \in 0 .. Len(q) - 1
      <4>1. k # Len(q)
        BY <1>1, <2>4, <3>1, PlaceIs
      <4> QED BY <1>2, <4>1
    <3>3. M[x].isDir
      BY <1>5, <3>1, <3>2 DEF IsInserted
    <3>4. x \notin PathsOf(manifest)
      BY <1>1, <3>1, <3>2, AboveIsNoPath
    <3>5. \A j \in 1 .. m + 1 : x # P(j)
      BY <1>0, <1>1, <2>1, <3>4
    <3> QED BY <3>3, <3>5
  <2> QED BY <2>2, <2>3, <2>4
<1>9. ASSUME NEW j \in 1 .. m + 1, \A l \in j + 1 .. m + 1 : P(l) # P(j) PROVE M[P(j)] = NodeOf(manifest[j])
  <2>1. CASE j = m + 1
    BY <1>6, <2>1 DEF P, q, node
  <2>2. CASE j \in 1 .. m
    <3>1. m + 1 \in j + 1 .. m + 1 /\ \A l \in j + 1 .. m : l \in j + 1 .. m + 1
      BY <1>0, <2>2
    <3>2. P(j) # q /\ \A l \in j + 1 .. m : P(l) # P(j)
      BY <1>9, <3>1 DEF P, q
    <3>3. N[P(j)] = NodeOf(manifest[j])
      BY <2>2, <3>2 DEF HasLoaded, P
    <3>4. P(j) \in DOMAIN N
      <4>1. P(j) \in PlacesOf(P(j))
        <5>1. Len(P(j)) \in 0 .. Len(P(j)) /\ P(j) \in Seq(C)
          BY <1>1, <2>2
        <5>2. Place(P(j), Len(P(j))) = P(j)
          BY <5>1, PlaceIs
        <5> QED BY <5>1, <5>2 DEF PlacesOf
      <4> QED BY <2>2, <4>1 DEF HasLoaded, P
    <3>5. ~N[P(j)].isDir
      BY <3>3, NodeIsFile
    <3>6. M[P(j)] = N[P(j)]
      BY <1>6, <3>2, <3>4, <3>5 DEF KeepsNodes
    <3> QED BY <3>3, <3>6
  <2> QED BY <1>0, <2>1, <2>2
<1>10. HasLoaded(M, C, manifest, m + 1)
  BY <1>6, <1>7, <1>8, <1>9 DEF HasLoaded, P
<1> QED BY <1>10 DEF M, q, node

\* The whole of a sound manifest.
LEMMA LoadsManifest ==
  ASSUME NEW C, NEW manifest \in Seq(Entries(C)), Sound(manifest)
  PROVE  HasLoaded(Loading(manifest)[Len(manifest)], C, manifest, Len(manifest))
<1> DEFINE R == Loading(manifest)
           L == Len(manifest)
           S == {m \in 0 .. L : HasLoaded(R[m], C, manifest, m)}
           none == [p \in {<<>>} |-> Root]
<1>0. L \in Nat
  OBVIOUS
<1>1. /\ R[0] = none
      /\ \A m \in 1 .. L : R[m] = insert(R[m - 1], PathOf(manifest, m), NodeOf(manifest[m]))
  BY LoadingEquation
<1> HIDE DEF R
<1>2. 0 \in S
  <2>1. DOMAIN none = {<<>>} /\ none[<<>>] = Root /\ none = [x \in DOMAIN none |-> none[x]]
    OBVIOUS
  <2> HIDE DEF none
  <2>2. InfosIn(none, <<>>) = NoEntries
    <3>1. EntriesIn(DOMAIN none, <<>>) = {}
      BY <2>1 DEF EntriesIn
    <3> QED BY <3>1 DEF InfosIn, NoEntries
  <2>3. Root = DirNode(NoEntries) /\ Root.isDir /\ Root.isDir \in BOOLEAN
    BY DEF Root, DirNode
  <2>4. <<>> \in Seq(C)
    OBVIOUS
  <2>5. IsTree(none, C)
    BY <2>1, <2>2, <2>3, <2>4 DEF IsTree
  <2>6. \A j \in 1 .. 0 : FALSE
    OBVIOUS
  <2>7. HasLoaded(none, C, manifest, 0)
    BY <2>1, <2>3, <2>5, <2>6 DEF HasLoaded
  <2> QED BY <1>0, <1>1, <2>7
<1>3. ASSUME NEW m \in 0 .. L - 1, m \in S PROVE m + 1 \in S
  <2>1. m + 1 \in 1 .. L /\ (m + 1) - 1 = m
    BY <1>0
  <2>2. R[m + 1] = insert(R[m], PathOf(manifest, m + 1), NodeOf(manifest[m + 1]))
    BY <1>1, <2>1
  <2>3. HasLoaded(R[m], C, manifest, m)
    BY <1>3
  <2>4. HasLoaded(R[m + 1], C, manifest, m + 1)
    BY <2>2, <2>3, LoadsEntry
  <2> QED BY <2>1, <2>4
<1>4. L \in S
  <2> HIDE DEF S, L
  <2>1. \A m \in 0 .. L : m \in S
    BY <1>0, <1>2, <1>3, UpTo
  <2> QED BY <1>0, <2>1
<1> QED BY <1>4 DEF R

\* Every path of a manifest has a last entry.
LEMMA HasLastEntry ==
  ASSUME NEW E, NEW manifest \in Seq(E), NEW p \in PathsOf(manifest)
  PROVE  \E j \in 1 .. Len(manifest) : IsLast(manifest, p, j) /\ LastEntry(manifest, p) = manifest[j]
<1> DEFINE L == Len(manifest)
           Has(m) == (\E j \in 1 .. m : PathOf(manifest, j) = p)
                        => \E j \in 1 .. m : PathOf(manifest, j) = p /\ \A l \in j + 1 .. m : PathOf(manifest, l) # p
           S == {m \in 0 .. L : Has(m)}
<1>0. L \in Nat /\ DOMAIN manifest = 1 .. L
  OBVIOUS
<1>1. 0 \in S
  BY <1>0
<1>2. ASSUME NEW m \in 0 .. L - 1, m \in S PROVE m + 1 \in S
  <2>1. m \in Nat /\ m + 1 \in 0 .. L
    BY <1>0
  <2>2. Has(m)
    BY <1>2
  <2>3. CASE PathOf(manifest, m + 1) = p
    <3>1. m + 1 \in 1 .. m + 1 /\ \A l \in (m + 1) + 1 .. m + 1 : FALSE
      BY <2>1
    <3> QED BY <2>1, <2>3, <3>1
  <2>4. CASE PathOf(manifest, m + 1) # p
    <3>1. ASSUME \E j \in 1 .. m + 1 : PathOf(manifest, j) = p
          PROVE  \E j \in 1 .. m + 1 : PathOf(manifest, j) = p /\ \A l \in j + 1 .. m + 1 : PathOf(manifest, l) # p
      <4>1. \E j \in 1 .. m : PathOf(manifest, j) = p
        BY <2>1, <2>4, <3>1
      <4>2. PICK j \in 1 .. m : PathOf(manifest, j) = p /\ \A l \in j + 1 .. m : PathOf(manifest, l) # p
        BY <2>2, <4>1
      <4>3. j \in 1 .. m + 1 /\ \A l \in j + 1 .. m + 1 : l \in j + 1 .. m \/ l = m + 1
        BY <2>1
      <4> QED BY <2>4, <4>2, <4>3
    <3> QED BY <2>1, <3>1
  <2> QED BY <2>3, <2>4
<1>3. L \in S
  <2> HIDE DEF S, L
  <2>1. \A m \in 0 .. L : m \in S
    BY <1>0, <1>1, <1>2, UpTo
  <2> QED BY <1>0, <2>1
<1>4. Has(L) /\ \E j \in 1 .. L : PathOf(manifest, j) = p
  BY <1>0, <1>3 DEF PathsOf
<1>5. PICK j \in 1 .. L : PathOf(manifest, j) = p /\ \A l \in j + 1 .. L : PathOf(manifest, l) # p
  BY <1>4
<1>6. \A l \in 1 .. L : l > j => l \in j + 1 .. L
  BY <1>0
<1>7. IsLast(manifest, p, j)
  BY <1>0, <1>5, <1>6 DEF IsLast
<1>8. \E l \in DOMAIN manifest : IsLast(manifest, p, l)
  BY <1>0, <1>7
<1>9. PICK l \in DOMAIN manifest : IsLast(manifest, p, l) /\ LastEntry(manifest, p) = manifest[l]
  BY <1>8 DEF LastEntry
<1> QED BY <1>0, <1>9

\* The places above the files are the directories.
LEMMA DirectoriesAreAbove ==
  ASSUME NEW C, NEW manifest \in Seq(Entries(C)), Sound(manifest), NEW N, HasLoaded(N, C, manifest, Len(manifest))
  PROVE  /\ DOMAIN N = PathsOf(manifest) \union Above(manifest)
         /\ \A d \in Above(manifest) : d \in Seq(C) /\ N[d].isDir
         /\ \A p \in PathsOf(manifest) : p \in Seq(C) /\ Len(p) \in Nat
<1> DEFINE L == Len(manifest)
           P(j) == PathOf(manifest, j)
<1>0. L \in Nat /\ DOMAIN manifest = 1 .. L
  OBVIOUS
<1>1. \A p : p \in PathsOf(manifest) <=> \E j \in 1 .. L : p = P(j)
  BY <1>0 DEF PathsOf
<1>2. \A p \in PathsOf(manifest) : p \in Seq(C) /\ Len(p) \in Nat
  BY <1>1, PathsArePaths
<1>3. \A x : x \in DOMAIN N <=> x = <<>> \/ \E p \in PathsOf(manifest) : x \in PlacesOf(p)
  BY <1>1 DEF HasLoaded
<1>4. ASSUME NEW p \in PathsOf(manifest), NEW x
      PROVE  x \in PlacesOf(p) <=> x = p \/ \E k \in 0 .. Len(p) - 1 : x = Place(p, k)
  <2>1. Len(p) \in Nat /\ Place(p, Len(p)) = p /\ Len(p) \in 0 .. Len(p)
    BY <1>2, PlaceIs
  <2>2. \A k \in 0 .. Len(p) : k \in 0 .. Len(p) - 1 \/ k = Len(p)
    BY <2>1
  <2>3. \A k \in 0 .. Len(p) - 1 : k \in 0 .. Len(p)
    BY <2>1
  <2> QED BY <2>1, <2>2, <2>3 DEF PlacesOf
<1>5. \A x : x \in Above(manifest) <=> x = <<>> \/ \E p \in PathsOf(manifest) : \E k \in 0 .. Len(p) - 1 : x = Place(p, k)
  <2>1. \A x : x \in Above(manifest) <=> x = <<>> \/ \E p \in PathsOf(manifest) : x \in DirsOf(p)
    BY DEF Above
  <2>2. \A p, x : x \in DirsOf(p) <=> \E k \in 0 .. Len(p) - 1 : x = Place(p, k)
    BY DEF DirsOf
  <2> QED BY <2>1, <2>2
<1>6. DOMAIN N = PathsOf(manifest) \union Above(manifest)
  <2>1. ASSUME NEW x PROVE x \in DOMAIN N <=> x \in PathsOf(manifest) \union Above(manifest)
    BY <1>3, <1>4, <1>5
  <2> QED BY <2>1
<1>7. ASSUME NEW d \in Above(manifest) PROVE d \in Seq(C) /\ N[d].isDir
  <2>1. d \in DOMAIN N /\ d \in Seq(C)
    BY <1>6 DEF HasLoaded, IsTree
  <2>2. CASE d = <<>>
    BY <2>1, <2>2 DEF HasLoaded, IsTree
  <2>3. CASE d # <<>>
    <3>1. PICK p \in PathsOf(manifest) : \E k \in 0 .. Len(p) - 1 : d = Place(p, k)
      BY <1>5, <2>3
    <3>2. PICK k \in 0 .. Len(p) - 1 : d = Place(p, k)
      BY <3>1
    <3>3. d \notin PathsOf(manifest)
      BY <1>2, <3>2, AboveIsNoPath
    <3> QED BY <1>1, <2>1, <3>3 DEF HasLoaded
  <2> QED BY <2>2, <2>3
<1> QED BY <1>2, <1>6, <1>7

\* What is in a directory is what lies below it.
LEMMA EntriesAreBelow ==
  ASSUME NEW C, NEW manifest \in Seq(Entries(C)), Sound(manifest), NEW N, HasLoaded(N, C, manifest, Len(manifest)),
         NEW d \in Above(manifest)
  PROVE  EntriesIn(DOMAIN N, d) = Below(manifest, d)
<1>0. d \in Seq(C) /\ Len(d) \in Nat /\ \A p \in PathsOf(manifest) : p \in Seq(C) /\ Len(p) \in Nat
  <2>1. /\ \A e \in Above(manifest) : e \in Seq(C) /\ N[e].isDir
        /\ \A p \in PathsOf(manifest) : p \in Seq(C) /\ Len(p) \in Nat
    BY DirectoriesAreAbove
  <2> QED BY <2>1
<1>1. DOMAIN N = PathsOf(manifest) \union Above(manifest)
  BY DirectoriesAreAbove
<1>2. ASSUME NEW p \in PathsOf(manifest), IsStrictPrefix(d, p) PROVE p[Len(d) + 1] \in EntriesIn(DOMAIN N, d)
  <2> DEFINE k == Len(d) + 1
             x == Place(p, k)
  <2>1. d = Place(p, Len(d)) /\ Len(d) <= Len(p) /\ d # p
    <3>1. SubSeq(d, 1, Len(d)) = d
      BY <1>0, SubSeqFull
    <3> QED BY <1>0, <1>2, <3>1 DEF IsStrictPrefix, IsPrefix, Place
  <2>2. Len(d) # Len(p)
    <3>1. Len(p) \in 0 .. Len(p) /\ Place(p, Len(p)) = p
      BY <1>0, PlaceIs
    <3> QED BY <2>1, <3>1
  <2>3. k \in 1 .. Len(p) /\ k - 1 = Len(d) /\ k \in 0 .. Len(p)
    BY <1>0, <2>1, <2>2
  <2> HIDE DEF k
  <2>4. x # <<>> /\ Parent(x) = d /\ x[Len(x)] = p[k]
    BY <1>0, <2>1, <2>3, NextPlace
  <2>5. x \in DOMAIN N
    <3>1. x \in PlacesOf(p)
      BY <2>3 DEF PlacesOf
    <3>2. \E j \in 1 .. Len(manifest) : p = PathOf(manifest, j)
      BY DEF PathsOf
    <3> QED BY <3>1, <3>2 DEF HasLoaded
  <2> HIDE DEF x
  <2>6. x[Len(x)] \in EntriesIn(DOMAIN N, d)
    BY <2>4, <2>5 DEF EntriesIn
  <2> QED BY <2>4, <2>6 DEF k
<1>3. ASSUME NEW x \in DOMAIN N, x # <<>>, Parent(x) = d PROVE x[Len(x)] \in Below(manifest, d)
  <2>1. PICK j \in 1 .. Len(manifest) : x \in PlacesOf(PathOf(manifest, j))
    BY <1>3 DEF HasLoaded
  <2> DEFINE p == PathOf(manifest, j)
  <2>2. p \in PathsOf(manifest) /\ p \in Seq(C) /\ Len(p) \in Nat
    BY <1>0, PathsArePaths
  <2> HIDE DEF p
  <2>3. PICK k \in 0 .. Len(p) : x = Place(p, k)
    BY <2>1 DEF PlacesOf, p
  <2>4. k # 0
    BY <1>3, <2>2, <2>3, PlaceIs
  <2>5. k \in 1 .. Len(p) /\ k - 1 \in 0 .. Len(p) /\ k - 1 # Len(p)
    BY <2>2, <2>4
  <2>6. d = Place(p, k - 1) /\ x[Len(x)] = p[k]
    BY <1>3, <2>2, <2>3, <2>5, NextPlace
  <2>7. Len(d) = k - 1
    BY <2>2, <2>5, <2>6, PlaceIs
  <2>8. IsStrictPrefix(d, p)
    <3>1. SubSeq(d, 1, Len(d)) = d
      BY <1>0, SubSeqFull
    <3>2. SubSeq(p, 1, Len(d)) = d
      BY <2>6, <2>7 DEF Place
    <3>3. Len(d) <= Len(p) /\ d # p
      BY <2>2, <2>5, <2>7
    <3> QED BY <3>1, <3>2, <3>3 DEF IsStrictPrefix, IsPrefix
  <2>9. Len(d) + 1 = k
    BY <2>5, <2>7
  <2> QED BY <2>2, <2>6, <2>8, <2>9 DEF Below
<1>4. ASSUME NEW c PROVE c \in EntriesIn(DOMAIN N, d) <=> c \in Below(manifest, d)
  <2>1. ASSUME c \in EntriesIn(DOMAIN N, d) PROVE c \in Below(manifest, d)
    <3>1. PICK x \in DOMAIN N : x # <<>> /\ Parent(x) = d /\ c = x[Len(x)]
      BY <2>1 DEF EntriesIn
    <3> QED BY <1>3, <3>1
  <2>2. ASSUME c \in Below(manifest, d) PROVE c \in EntriesIn(DOMAIN N, d)
    <3>1. PICK p \in PathsOf(manifest) : IsStrictPrefix(d, p) /\ c = p[Len(d) + 1]
      BY <2>2 DEF Below
    <3> QED BY <1>2, <3>1
  <2> QED BY <2>1, <2>2
<1> QED BY <1>4

\* Only finitely many names are below a directory.
LEMMA BelowIsFinite ==
  ASSUME NEW E, NEW manifest \in Seq(E), NEW d
  PROVE  IsFiniteSet(Below(manifest, d))
<1> DEFINE L == Len(manifest)
           T == {j \in 1 .. L : IsStrictPrefix(d, PathOf(manifest, j))}
           B == Below(manifest, d)
           f == [j \in T |-> PathOf(manifest, j)[Len(d) + 1]]
<1>0. L \in Nat /\ DOMAIN manifest = 1 .. L
  OBVIOUS
<1>1. IsFiniteSet(T)
  <2>1. IsFiniteSet(1 .. L)
    BY <1>0, FS_Interval
  <2>2. T \in SUBSET (1 .. L)
    OBVIOUS
  <2> HIDE DEF T
  <2> QED BY <2>1, <2>2, FS_Subset
<1>2. \A j \in T : f[j] \in B
  BY <1>0 DEF Below, PathsOf
<1>3. \A c \in B : \E j \in T : f[j] = c
  <2> SUFFICES ASSUME NEW c \in B PROVE \E j \in T : f[j] = c
    OBVIOUS
  <2>1. PICK p \in PathsOf(manifest) : IsStrictPrefix(d, p) /\ c = p[Len(d) + 1]
    BY DEF Below
  <2>2. PICK j \in 1 .. L : p = PathOf(manifest, j)
    BY <1>0 DEF PathsOf
  <2>3. j \in T
    BY <2>1, <2>2
  <2> QED BY <2>1, <2>2, <2>3
<1> HIDE DEF T, B
<1>4. f \in [T -> B]
  BY <1>2
<1> HIDE DEF f
<1>5. f \in Surjection(T, B)
  BY <1>3, <1>4 DEF Surjection
<1> QED BY <1>1, <1>5, FS_Surjection DEF B

----------------------------------------------------------------------------
(* What a loaded bundle answers.                                           *)

Fits(manifest, data) ==
    \A j \in DOMAIN manifest : LET e == manifest[j] IN 0 <= e.start /\ e.start <= e.end /\ e.end <= Len(data)

\* A file has the bytes of its last entry, from the start and from wherever a Seek
\* puts the handle (Stat, FileRead, Seek).
LEMMA FilesAreServed ==
  ASSUME NEW C, NEW manifest \in Seq(Entries(C)), Sound(manifest), NEW B, NEW data \in Seq(B),
         Fits(manifest, data), NEW n \in Nat \ {0},
         NEW b, b.data = data, HasLoaded(b.nodes, C, manifest, Len(manifest)), NEW p \in PathsOf(manifest)
  PROVE  FileServed(b, p, LastEntry(manifest, p), n)
<1> DEFINE L == Len(manifest)
<1>0. L \in Nat /\ DOMAIN manifest = 1 .. L /\ Len(data) \in Nat
  OBVIOUS
<1>1. manifest \in Seq(Entries(C)) /\ p \in PathsOf(manifest)
  OBVIOUS
<1>2. PICK j \in 1 .. L : IsLast(manifest, p, j) /\ LastEntry(manifest, p) = manifest[j]
  BY <1>1, HasLastEntry
<1> DEFINE e == manifest[j]
           content == SubSeq(data, e.start + 1, e.end)
           m == e.end - e.start
<1>3. p = PathOf(manifest, j) /\ \A l \in j + 1 .. L : PathOf(manifest, l) # PathOf(manifest, j)
  <2>1. \A l \in j + 1 .. L : l \in DOMAIN manifest /\ l > j
    BY <1>0
  <2> QED BY <1>2, <2>1 DEF IsLast
<1>4. b.nodes[p] = NodeOf(e)
  BY <1>2, <1>3 DEF HasLoaded
<1>5. p \in DOMAIN b.nodes
  <2>1. DOMAIN b.nodes = PathsOf(manifest) \union Above(manifest)
    BY DirectoriesAreAbove
  <2> QED BY <2>1
<1>6. e.start \in Int /\ e.end \in Int /\ 0 <= e.start /\ e.start <= e.end /\ e.end <= Len(data)
  <2>1. e \in Entries(C)
    BY <1>0, <1>2
  <2> QED BY <1>0, <1>2, <2>1 DEF Entries, Fits
<1> HIDE DEF e
<1>7. m \in Nat /\ content \in Seq(B) /\ Len(content) = m
  <2>1. \A k \in e.start + 1 .. e.end : k \in 1 .. Len(data)
    BY <1>6
  <2>2. \A k \in e.start + 1 .. e.end : data[k] \in B
    BY <2>1
  <2>3. content \in Seq(B) /\ Len(content) = IF e.start + 1 <= e.end THEN e.end - (e.start + 1) + 1 ELSE 0
    BY <1>6, <2>2, SubSeqProperties
  <2> QED BY <1>6, <2>3
<1> DEFINE runs == Executable(e.file)
           none == FALSE
           N == [isDir |-> none, exec |-> runs, start |-> e.start, end |-> e.end, children |-> NoEntries]
<1>8. b.nodes[p] = N /\ ~none
  BY <1>4 DEF NodeOf, FileNode
<1> HIDE DEF runs, none
<1>9. ~N.isDir /\ N.isDir = none /\ N.exec = runs /\ N.start = e.start /\ N.end = e.end
  BY <1>8
<1> HIDE DEF N
<1>10. bytes(b, p) = content
  BY <1>8, <1>9 DEF bytes
<1>11. Stat(b, p) = [err |-> "", info |-> [isDir |-> none, exec |-> runs, size |-> e.end - e.start]]
  <2>1. bundleInfo(N) = [isDir |-> none, exec |-> runs, size |-> e.end - e.start]
    BY <1>8, <1>9 DEF bundleInfo
  <2> QED BY <1>5, <1>8, <2>1 DEF Stat
<1> HIDE DEF content, m
<1>12. ReadsTo(content, n, 0, content)
  <2>1. 0 \in 0 .. Len(content) /\ SubSeq(content, 0 + 1, Len(content)) = content
    BY <1>7, SubSeqFull
  <2>2. ReadsTo(content, n, 0, SubSeq(content, 0 + 1, Len(content)))
    BY <1>7, <2>1, ReadsRest
  <2> QED BY <2>1, <2>2
<1>13. ASSUME NEW k \in 0 .. Len(content)
       PROVE  LET s == Seek(content, n, -k, "end")
              IN  s.err = "" /\ ReadsTo(content, n, s.off, SubSeq(content, Len(content) - k + 1, Len(content)))
  <2> DEFINE from == Len(content) - k
             s == Seek(content, n, -k, "end")
  <2>1. from \in 0 .. Len(content) /\ -k + Len(content) = from /\ ~(-k + Len(content) < 0)
    BY <1>7
  <2>2. s = [err |-> "", off |-> from]
    BY <2>1 DEF Seek
  <2> HIDE DEF from, s
  <2>3. s.err = "" /\ s.off = from
    BY <2>2
  <2>4. ReadsTo(content, n, from, SubSeq(content, from + 1, Len(content)))
    BY <1>7, <2>1, ReadsRest
  <2>5. s.err = "" /\ ReadsTo(content, n, s.off, SubSeq(content, from + 1, Len(content)))
    BY <2>3, <2>4
  <2> QED BY <2>5 DEF from, s
<1>14. FileServed(b, p, e, n)
  BY <1>10, <1>11, <1>12, <1>13 DEF FileServed, content, none, runs
<1> QED BY <1>2, <1>14 DEF e

\* A directory has the names below it, in any number at once (Stat, ReadDir, DirReadDir).
LEMMA DirectoriesAreServed ==
  ASSUME NEW C, NEW manifest \in Seq(Entries(C)), Sound(manifest), NEW n \in Nat \ {0},
         NEW b, HasLoaded(b.nodes, C, manifest, Len(manifest)), NEW d \in Above(manifest)
  PROVE  DirServed(b, d, Below(manifest, d), n)
<1> DEFINE names == Below(manifest, d)
<1>1. d \in DOMAIN b.nodes /\ b.nodes[d].isDir
  BY DirectoriesAreAbove
<1>2. EntriesIn(DOMAIN b.nodes, d) = names
  BY EntriesAreBelow
<1> DEFINE K == InfosIn(b.nodes, d)
<1>3. b.nodes[d] = DirNode(K) /\ DOMAIN b.nodes \subseteq Seq(C)
  BY <1>1 DEF HasLoaded, IsTree
<1>4. IsFiniteSet(names)
  BY BelowIsFinite
<1> HIDE DEF names
<1>5. K = [c \in names |-> bundleInfo(b.nodes[Append(d, c)])]
  BY <1>2 DEF InfosIn
<1> HIDE DEF K
<1>6. /\ b.nodes[d].isDir = TRUE /\ b.nodes[d].children = K /\ bundleInfo(b.nodes[d]) = DirInfo
  BY <1>3, DirNodeIs
<1>7. Stat(b, d) = [err |-> "", info |-> DirInfo]
  BY <1>1, <1>6 DEF Stat
<1>8. ReadDir(b, d) = [err |-> "", entries |-> [c \in names |-> Stat(b, Append(d, c)).info]]
  <2>1. ASSUME NEW c \in names PROVE Stat(b, Append(d, c)).info = bundleInfo(b.nodes[Append(d, c)])
    <3>1. Append(d, c) \in DOMAIN b.nodes
      BY <1>2, <1>3, EntryIsPlace
    <3> DEFINE y == Append(d, c)
               told == bundleInfo(b.nodes[y])
    <3>2. Stat(b, y) = [err |-> "", info |-> told]
      BY <3>1 DEF Stat
    <3> HIDE DEF told, y
    <3>3. ASSUME NEW r, r = [err |-> "", info |-> told] PROVE r.info = told
      BY <3>3
    <3>4. Stat(b, y).info = told
      BY <3>2, <3>3
    <3> QED BY <3>4 DEF told, y
  <2>2. K = [c \in names |-> Stat(b, Append(d, c)).info]
    BY <1>5, <2>1
  <2>3. ReadDir(b, d) = [err |-> "", entries |-> K]
    BY <1>1, <1>6 DEF ReadDir
  <2> QED BY <2>2, <2>3
<1>9. ASSUME NEW order \in SetToSeqs(names) PROVE Lists(order, n)
  <2>1. Cardinality(names) \in Nat
    BY <1>4, FS_CardinalityType
  <2>2. order \in [1 .. Cardinality(names) -> names]
    BY DEF SetToSeqs
  <2>3. order \in Seq(names)
    BY <2>1, <2>2
  <2> QED BY <2>3, ListsAll
<1> QED BY <1>7, <1>8, <1>9 DEF DirServed, names, DirInfo

\* The bundle serves its manifest, whatever the paths, the entries, the bytes and the
\* steps it is read in (loadBundleFS, insert, FileRead, Seek, ReadDir, DirReadDir).
THEOREM EveryManifestIsServed ==
  ASSUME NEW C, NEW manifest \in Seq(Entries(C)), NEW B, NEW data \in Seq(B), NEW n \in Nat \ {0}
  PROVE  ManifestServed(manifest, data, n)
<1> DEFINE b == loadBundleFS(manifest, data)
<1>0. Len(data) \in Nat /\ \A j \in DOMAIN manifest : manifest[j].start \in Int /\ manifest[j].end \in Int
  <2>1. ASSUME NEW j \in DOMAIN manifest PROVE manifest[j].start \in Int /\ manifest[j].end \in Int
    <3>1. manifest[j] \in Entries(C)
      OBVIOUS
    <3> QED BY <3>1 DEF Entries
  <2> QED BY <2>1
<1>1. b = IF Fits(manifest, data) THEN [ok |-> TRUE, data |-> data, nodes |-> Loading(manifest)[Len(manifest)]]
          ELSE [ok |-> FALSE, data |-> <<>>, nodes |-> <<>>]
  BY <1>0 DEF Fits, loadBundleFS
<1> HIDE DEF b
<1>2. b.ok \in BOOLEAN /\ (b.ok <=> Fits(manifest, data))
  BY <1>1
<1>3. b.ok = \A j \in DOMAIN manifest : LET e == manifest[j] IN 0 <= e.start /\ e.start <= e.end /\ e.end <= Len(data)
  BY <1>2 DEF Fits
<1>4. ASSUME b.ok, Sound(manifest)
      PROVE  /\ DOMAIN b.nodes = PathsOf(manifest) \union Above(manifest)
             /\ \A p \in PathsOf(manifest) : FileServed(b, p, LastEntry(manifest, p), n)
             /\ \A d \in Above(manifest) : DirServed(b, d, Below(manifest, d), n)
  <2>1. Fits(manifest, data) /\ b.data = data /\ b.nodes = Loading(manifest)[Len(manifest)]
    BY <1>1, <1>2, <1>4
  <2>2. HasLoaded(b.nodes, C, manifest, Len(manifest))
    BY <1>4, <2>1, LoadsManifest
  <2>3. DOMAIN b.nodes = PathsOf(manifest) \union Above(manifest)
    BY <1>4, <2>2, DirectoriesAreAbove
  <2>4. ASSUME NEW p \in PathsOf(manifest) PROVE FileServed(b, p, LastEntry(manifest, p), n)
    BY <1>4, <2>1, <2>2, FilesAreServed
  <2>5. ASSUME NEW d \in Above(manifest) PROVE DirServed(b, d, Below(manifest, d), n)
    BY <1>4, <2>2, DirectoriesAreServed
  <2> QED BY <2>3, <2>4, <2>5
<1> QED BY <1>3, <1>4 DEF ManifestServed, b

\* A sample of the algorithms' run is one of these: entries with paths, and a step.
SampleOK(C) == sample.kind = "bundle" => sample.manifest \in Seq(Entries(C)) /\ sample.n \in Nat \ {0}

\* What the run checks of its samples holds of every sample (loadBundleFS, insert, ReadAt,
\* Seek, ReadDir).
THEOREM SamplesAreServed ==
  ASSUME NEW C
  PROVE  []SampleOK(C) => []BundleServesManifest
<1>1. SampleOK(C) => BundleServesManifest
  <2> SUFFICES ASSUME SampleOK(C), sample.kind = "bundle"
               PROVE  ManifestServed(sample.manifest, Blob, sample.n)
    BY DEF BundleServesManifest
  <2>1. sample.manifest \in Seq(Entries(C)) /\ sample.n \in Nat \ {0}
    BY DEF SampleOK
  <2>2. Blob \in Seq(0 .. 255)
    BY BlobAssumption
  <2> QED BY <2>1, <2>2, EveryManifestIsServed
<1> QED BY <1>1, PTL
=============================================================================
