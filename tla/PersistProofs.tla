--------------------------- MODULE PersistProofs ---------------------------
(***************************************************************************)
(* Saving and loading, for any number of processes on one host directory   *)
(* and any shape of data directory: what a complete, undisturbed save left *)
(* is on the host and is what the next Open loads.                         *)
(***************************************************************************)
EXTENDS Persist, WellFoundedInduction, TLAPS

\* What each point of a walk means for the process's own tree and result.
WalkInv(d) ==
    /\ pc[d] \in Saving => result[d] = "none"
    /\ pc[d] \in Saving \union {"running"} => Root \in DOMAIN mem[d]
    /\ pc[d] = "load" => Root \in todo[d] \union DOMAIN mem[d]
    /\ pc[d] = "load" => \A p \in todo[d] \ {Root} : p \in Paths /\ Parent[p] \in DOMAIN mem[d]
    /\ pc[d] \in {"copy", "writing"} => todo[d] \subseteq DOMAIN mem[d] \ {Root}

\* The host holds what the save has visited, and nothing else.
Visited(d) == DOMAIN mem[d] \ todo[d]
Agrees(d, S) == \A p \in S : host[p] = mem[d][p]
SaveInv(d) ==
    ~disturbed[d] =>
        /\ pc[d] = "mkroot" => host = NoTree
        /\ pc[d] = "copy" => DOMAIN host = Visited(d) /\ Agrees(d, Visited(d))
        /\ pc[d] = "writing" =>
              \E p \in Paths \ Dirs : /\ IsNext(d, p)
                                      /\ DOMAIN host = Visited(d) \union {p}
                                      /\ Agrees(d, Visited(d))

\* What is loaded agrees with the host, and what is not is still to be visited,
\* or its directory is.
LoadInv(d) ==
    pc[d] = "load" /\ ~disturbed[d] =>
        /\ DOMAIN mem[d] \subseteq DOMAIN host /\ Agrees(d, DOMAIN mem[d])
        /\ \A p \in DOMAIN host \ {Root} :
              p \in DOMAIN mem[d] \union todo[d] \/ Parent[p] \notin DOMAIN mem[d]

PersistInv ==
    /\ TypeOK
    /\ \A d \in Dbs : WalkInv(d) /\ SaveInv(d) /\ LoadInv(d)
    /\ SavedIsOnHost

----------------------------------------------------------------------------
(* Trees.                                                                  *)

\* A set of numbers that is not empty has a least element.
LEMMA LeastNat ==
  ASSUME NEW S \in SUBSET Nat, S # {}
  PROVE  \E n \in S : \A k \in S : n <= k
<1>1. PICK n \in S : \A k \in S : <<k, n>> \notin OpToRel(<, Nat)
  BY WFMin, NatLessThanWellFounded
<1>2. \A k \in S : ~(k < n)
  BY <1>1 DEF OpToRel
<1> QED BY <1>2

\* An entry may be added to its directory.
LEMMA WithIsTree ==
  ASSUME NEW t, IsTree(t), NEW p \in Everything, NEW c \in Content,
         IsDir(p) <=> c = Dir, p = Root \/ Parent[p] \in DOMAIN t
  PROVE  IsTree(With(t, p, c))
<1> DEFINE w == With(t, p, c)
<1>1. w \in [DOMAIN w -> Content]
  BY DEF IsTree, With
<1>2. /\ DOMAIN w = DOMAIN t \union {p} /\ w[p] = c
      /\ \A q \in DOMAIN t : q # p => w[q] = t[q]
  BY DEF With
<1> HIDE DEF w
<1>3. /\ DOMAIN w \subseteq Everything
      /\ \A q \in DOMAIN w : IsDir(q) <=> w[q] = Dir
      /\ \A q \in DOMAIN w \ {Root} : Parent[q] \in DOMAIN w
  BY <1>2, PersistAssumption DEF IsTree
<1> QED BY <1>1, <1>3 DEF IsTree, w

\* An entry without entries of its own may be removed.
LEMMA WithoutIsTree ==
  ASSUME NEW t, IsTree(t), NEW p, Entries(t, p) = {}
  PROVE  IsTree(Without(t, p))
<1> DEFINE w == Without(t, p)
<1>1. w \in [DOMAIN w -> Content]
  BY DEF IsTree, Without, Restrict
<1>2. /\ DOMAIN w = DOMAIN t \ {p}
      /\ \A q \in DOMAIN t : q # p => w[q] = t[q]
  BY DEF Without, Restrict
<1> HIDE DEF w
<1>3. /\ DOMAIN w \subseteq Everything
      /\ \A q \in DOMAIN w : IsDir(q) <=> w[q] = Dir
      /\ \A q \in DOMAIN w \ {Root} : Parent[q] \in DOMAIN w
  BY <1>2 DEF IsTree, Entries
<1> QED BY <1>1, <1>3 DEF IsTree, w

\* So may a directory with all the directories above it, ...
LEMMA WithDirsIsTree ==
  ASSUME NEW t, IsTree(t), NEW p \in Dirs
  PROVE  IsTree(WithDirs(t, Above(p)))
<1> DEFINE w == WithDirs(t, Above(p))
<1>1. Above(p) \subseteq Dirs \union {Root}
  <2> DEFINE S == Dirs \union {Root}
  <2>1. S \in SUBSET Everything /\ p \in S /\ \A r \in S \ {Root} : Parent[r] \in S
    BY PersistAssumption DEF Everything
  <2> QED BY <2>1 DEF Above
<1>2. \A q \in Above(p) \ {Root} : Parent[q] \in Above(p)
  <2>1. \A q \in Above(p) \ {Root} : Parent[q] \in Everything
    BY PersistAssumption DEF Above, Everything
  <2> QED BY <2>1 DEF Above
<1>3. w \in [DOMAIN w -> Content]
  BY PersistAssumption DEF IsTree, WithDirs, Content, Torn, Dir
<1>4. /\ DOMAIN w = DOMAIN t \union Above(p)
      /\ \A q \in Above(p) : w[q] = Dir
      /\ \A q \in DOMAIN t \ Above(p) : w[q] = t[q]
  BY DEF WithDirs
<1> HIDE DEF w
<1>5. /\ DOMAIN w \subseteq Everything
      /\ \A q \in DOMAIN w : IsDir(q) <=> w[q] = Dir
      /\ \A q \in DOMAIN w \ {Root} : Parent[q] \in DOMAIN w
  BY <1>1, <1>2, <1>4 DEF IsTree, IsDir, Above
<1> QED BY <1>3, <1>5 DEF IsTree, w

\* ... which adds only the directory itself where its parent is there.
LEMMA WithDirsInPlace ==
  ASSUME NEW t, IsTree(t), NEW p \in Dirs, Parent[p] \in DOMAIN t
  PROVE  WithDirs(t, Above(p)) = With(t, p, Dir)
<1>1. Above(p) \subseteq DOMAIN t \union {p}
  <2> DEFINE S == DOMAIN t \union {p}
  <2>1. S \in SUBSET Everything /\ p \in S /\ \A r \in S \ {Root} : Parent[r] \in S
    BY PersistAssumption DEF IsTree, Everything
  <2> QED BY <2>1 DEF Above
<1>2. p \in Above(p)
  BY PersistAssumption DEF Above, Everything
<1>3. \A q \in Above(p) \ {p} : t[q] = Dir
  <2> DEFINE S == Dirs \union {Root}
  <2>1. S \in SUBSET Everything /\ p \in S /\ \A r \in S \ {Root} : Parent[r] \in S
    BY PersistAssumption DEF Everything
  <2>2. Above(p) \subseteq S
    BY <2>1 DEF Above
  <2> QED BY <1>1, <2>2 DEF IsTree, IsDir
<1> QED BY <1>1, <1>2, <1>3 DEF WithDirs, With

LEMMA NoTreeIsTree == IsTree(NoTree) /\ DOMAIN NoTree = {}
  BY DEF IsTree, NoTree

LEMMA SameTree ==
  ASSUME NEW t, IsTree(t), NEW u, IsTree(u), DOMAIN t = DOMAIN u,
         \A p \in DOMAIN t : t[p] = u[p]
  PROVE  t = u
  BY DEF IsTree

----------------------------------------------------------------------------
(* Steps of one process, seen from the others and from itself.             *)

Outcomes == {"none", "ok", "error"}
WalksInv(d) == WalkInv(d) /\ SaveInv(d) /\ LoadInv(d)

\* A step that leaves the host alone, or disturbs every other walk of it, keeps
\* what is known of the other processes.
LEMMA OthersKept ==
  ASSUME PersistInv, NEW d \in Dbs, NEW e \in Dbs, e # d,
         pc'[e] = pc[e], mem'[e] = mem[e], todo'[e] = todo[e], result'[e] = result[e],
         \/ host' = host /\ (disturbed'[e] <=> disturbed[e])
         \/ pc[e] \in Saving \union {"load"} => disturbed'[e]
  PROVE  WalksInv(e)'
<1>0. WalkInv(e) /\ SaveInv(e) /\ LoadInv(e)
  BY DEF PersistInv
<1>1. WalkInv(e)'
  BY <1>0 DEF WalkInv
<1>2. CASE host' = host /\ (disturbed'[e] <=> disturbed[e])
  <2>1. SaveInv(e)'
    BY <1>0, <1>2 DEF SaveInv, Visited, Agrees, IsNext
  <2>2. LoadInv(e)'
    BY <1>0, <1>2 DEF LoadInv, Agrees
  <2> QED BY <1>1, <2>1, <2>2 DEF WalksInv
<1>3. CASE pc[e] \in Saving \union {"load"} => disturbed'[e]
  <2>1. SaveInv(e)'
    BY <1>3 DEF SaveInv, Saving
  <2>2. LoadInv(e)'
    BY <1>3 DEF LoadInv
  <2> QED BY <1>1, <2>1, <2>2 DEF WalksInv
<1> QED BY <1>2, <1>3

\* The invariant of the next state, from the state of the process that moved.
LEMMA Assemble ==
  ASSUME PersistInv, NEW d \in Dbs, TypeOK', WalksInv(d)', SavedIsOnHost',
         \A e \in Dbs : e # d =>
            /\ pc'[e] = pc[e] /\ mem'[e] = mem[e]
            /\ todo'[e] = todo[e] /\ result'[e] = result[e]
            /\ \/ host' = host /\ (disturbed'[e] <=> disturbed[e])
               \/ pc[e] \in Saving \union {"load"} => disturbed'[e]
  PROVE  PersistInv'
<1>1. \A e \in Dbs : e # d => WalksInv(e)'
  BY OthersKept
<1> QED BY <1>1 DEF PersistInv, WalksInv

LEMMA InitPersistInv == Init => PersistInv
<1> SUFFICES ASSUME Init PROVE PersistInv
  OBVIOUS
<1>1. TypeOK
  BY NoTreeIsTree DEF Init, TypeOK, Points, Saving
<1>2. \A d \in Dbs : WalkInv(d) /\ SaveInv(d) /\ LoadInv(d)
  BY DEF Init, WalkInv, SaveInv, LoadInv, Saving
<1>3. SavedIsOnHost
  BY DEF Init, SavedIsOnHost
<1> QED BY <1>1, <1>2, <1>3 DEF PersistInv

\* A process that gives its database up knows nothing any more.
LEMMA OffKeeps ==
  ASSUME PersistInv, NEW d \in Dbs, NEW r \in Outcomes, Off(d, r), UNCHANGED <<host, disturbed>>,
         IsTree(kept)', saved' \in BOOLEAN, SavedIsOnHost'
  PROVE  PersistInv'
<1>1. TypeOK'
  BY NoTreeIsTree DEF PersistInv, TypeOK, Off, Goto, Ends, Outcomes, Points, Saving
<1>2. WalksInv(d)'
  BY DEF PersistInv, TypeOK, WalksInv, WalkInv, SaveInv, LoadInv, Off, Goto, Saving
<1>3. \A e \in Dbs : e # d =>
        /\ pc'[e] = pc[e] /\ mem'[e] = mem[e] /\ todo'[e] = todo[e] /\ result'[e] = result[e]
        /\ host' = host /\ (disturbed'[e] <=> disturbed[e])
  BY DEF PersistInv, TypeOK, Off, Goto, Ends
<1> QED BY <1>1, <1>2, <1>3, Assemble

----------------------------------------------------------------------------
(* Open, a running database, and the start of a save.                      *)

LEMMA LoadKeeps ==
  ASSUME PersistInv, NEW d \in Dbs, Load(d)
  PROVE  PersistInv'
<1>1. TypeOK'
  BY NoTreeIsTree DEF PersistInv, TypeOK, Load, Goto, Ends, BeginWalk, Points, Saving, Everything
<1>2. WalksInv(d)'
  BY NoTreeIsTree DEF PersistInv, TypeOK, WalksInv, WalkInv, SaveInv, LoadInv, Agrees, Load, Goto, Saving
<1>3. SavedIsOnHost'
  BY DEF PersistInv, SavedIsOnHost, Load
<1>4. \A e \in Dbs : e # d =>
        /\ pc'[e] = pc[e] /\ mem'[e] = mem[e] /\ todo'[e] = todo[e] /\ result'[e] = result[e]
        /\ host' = host /\ (disturbed'[e] <=> disturbed[e])
  BY DEF PersistInv, TypeOK, Load, Goto, Ends, BeginWalk
<1> QED BY <1>1, <1>2, <1>3, <1>4, Assemble

\* initdb's tree is a tree.
LEMMA InitialIsTree ==
  IsTree([p \in Initial \union {Root} |-> IF IsDir(p) THEN Dir ELSE 0])
<1> DEFINE t == [p \in Initial \union {Root} |-> IF IsDir(p) THEN Dir ELSE 0]
<1>1. t \in [DOMAIN t -> Content] /\ DOMAIN t \subseteq Everything
  BY PersistAssumption DEF Content, Torn, Dir, Everything
<1>2. \A p \in DOMAIN t : IsDir(p) <=> t[p] = Dir
  BY PersistAssumption DEF Dir
<1>3. \A p \in DOMAIN t \ {Root} : Parent[p] \in DOMAIN t
  BY PersistAssumption
<1> QED BY <1>1, <1>2, <1>3 DEF IsTree

LEMMA InitdbKeeps ==
  ASSUME PersistInv, NEW d \in Dbs, Initdb(d)
  PROVE  PersistInv'
<1>1. PICK S \in {Initial} \union {Initial \ {p} : p \in Essential} :
         IF Essential \subseteq S
         THEN /\ mem' = [mem EXCEPT ![d] = [p \in S \union {Root} |-> IF IsDir(p) THEN Dir ELSE 0]]
              /\ BeginSave(d, "open") /\ Ends(d, "none")
              /\ UNCHANGED <<host, todo, kept, saved>>
         ELSE Off(d, "error") /\ Untouched
  BY DEF Initdb
<1>2. CASE Essential \subseteq S
  <2> DEFINE t == [p \in Initial \union {Root} |-> IF IsDir(p) THEN Dir ELSE 0]
  <2>1. S = Initial
    BY <1>2, PersistAssumption
  <2>2. mem' = [mem EXCEPT ![d] = t] /\ BeginSave(d, "open") /\ Ends(d, "none")
        /\ UNCHANGED <<host, todo, kept, saved>>
    BY <1>1, <1>2, <2>1
  <2>3. IsTree(t) /\ Root \in DOMAIN t
    BY InitialIsTree
  <2> HIDE DEF t
  <2>4. TypeOK'
    BY <2>2, <2>3 DEF PersistInv, TypeOK, BeginSave, Goto, Ends, BeginWalk, Points, Saving
  <2>5. WalksInv(d)'
    BY <2>2, <2>3 DEF PersistInv, TypeOK, WalksInv, WalkInv, SaveInv, LoadInv, BeginSave, Goto, Ends, Saving
  <2>6. SavedIsOnHost'
    BY <2>2 DEF PersistInv, SavedIsOnHost
  <2>7. \A e \in Dbs : e # d =>
          /\ pc'[e] = pc[e] /\ mem'[e] = mem[e] /\ todo'[e] = todo[e] /\ result'[e] = result[e]
          /\ host' = host /\ (disturbed'[e] <=> disturbed[e])
    BY <2>2 DEF PersistInv, TypeOK, BeginSave, Goto, Ends, BeginWalk
  <2> QED BY <2>4, <2>5, <2>6, <2>7, Assemble
<1>3. CASE ~(Essential \subseteq S)
  BY <1>1, <1>3, OffKeeps DEF Untouched, PersistInv, TypeOK, SavedIsOnHost, Outcomes
<1> QED BY <1>2, <1>3

LEMMA LoadEntryKeeps ==
  ASSUME PersistInv, NEW d \in Dbs, LoadEntry(d)
  PROVE  PersistInv'
<1>1. PICK p \in DOMAIN host :
         /\ IsNext(d, p)
         /\ mem' = [mem EXCEPT ![d] = With(mem[d], p, host[p])]
         /\ todo' = [todo EXCEPT ![d] = (todo[d] \ {p}) \union Entries(host, p)]
  BY DEF LoadEntry
<1>2. pc[d] = "load" /\ p \in todo[d] /\ UNCHANGED <<pc, saving, result, host, disturbed, kept, saved>>
  BY <1>1 DEF LoadEntry, IsNext, Untouched
<1>3. TypeOK /\ WalkInv(d) /\ LoadInv(d)
  BY DEF PersistInv
<1>4. mem'[d] = With(mem[d], p, host[p]) /\ todo'[d] = (todo[d] \ {p}) \union Entries(host, p)
  BY <1>1, <1>3 DEF TypeOK
<1>5. /\ DOMAIN mem'[d] = DOMAIN mem[d] \union {p} /\ mem'[d][p] = host[p]
      /\ \A q \in DOMAIN mem[d] : q # p => mem'[d][q] = mem[d][q]
  BY <1>4 DEF With
<1>6. IsTree(mem'[d])
  <2>1. p \in Everything /\ host[p] \in Content /\ (IsDir(p) <=> host[p] = Dir)
    BY <1>3 DEF TypeOK, IsTree
  <2>2. p = Root \/ Parent[p] \in DOMAIN mem[d]
    BY <1>2, <1>3 DEF WalkInv
  <2> QED BY <1>3, <1>4, <2>1, <2>2, WithIsTree DEF TypeOK
<1>7. todo'[d] \subseteq Everything
  BY <1>3, <1>4 DEF TypeOK, IsTree, Entries
<1>8. TypeOK'
  BY <1>1, <1>2, <1>3, <1>6, <1>7 DEF TypeOK
<1>9. WalkInv(d)'
  <2>1. Root \in todo'[d] \union DOMAIN mem'[d]
    BY <1>2, <1>3, <1>4, <1>5 DEF WalkInv
  <2>2. \A q \in todo'[d] \ {Root} : q \in Paths /\ Parent[q] \in DOMAIN mem'[d]
    BY <1>2, <1>3, <1>4, <1>5, <1>7 DEF WalkInv, Entries, Everything
  <2> QED BY <1>2, <2>1, <2>2 DEF WalkInv, Saving
<1>10. LoadInv(d)'
  BY <1>2, <1>3, <1>4, <1>5 DEF LoadInv, Agrees, Entries
<1>11. WalksInv(d)' /\ SavedIsOnHost'
  BY <1>2, <1>9, <1>10 DEF WalksInv, SaveInv, PersistInv, SavedIsOnHost
<1>12. \A e \in Dbs : e # d =>
        /\ pc'[e] = pc[e] /\ mem'[e] = mem[e] /\ todo'[e] = todo[e] /\ result'[e] = result[e]
        /\ host' = host /\ (disturbed'[e] <=> disturbed[e])
  BY <1>1, <1>2, <1>3 DEF TypeOK
<1> QED BY <1>8, <1>11, <1>12, Assemble

LEMMA StartWireKeeps ==
  ASSUME PersistInv, NEW d \in Dbs, StartWire(d)
  PROVE  PersistInv'
<1>1. TypeOK'
  BY DEF PersistInv, TypeOK, StartWire, Goto, Ends, Untouched, Points, Saving
<1>2. WalksInv(d)' /\ SavedIsOnHost'
  BY DEF PersistInv, TypeOK, WalksInv, WalkInv, SaveInv, LoadInv, StartWire, Goto, Ends, Untouched,
     Saving, SavedIsOnHost
<1>3. \A e \in Dbs : e # d =>
        /\ pc'[e] = pc[e] /\ mem'[e] = mem[e] /\ todo'[e] = todo[e] /\ result'[e] = result[e]
        /\ host' = host /\ (disturbed'[e] <=> disturbed[e])
  BY DEF PersistInv, TypeOK, StartWire, Goto, Ends, Untouched
<1> QED BY <1>1, <1>2, <1>3, Assemble

\* The backend writes files where their directory is, and removes files.
LEMMA BackendKeeps ==
  ASSUME PersistInv, NEW d \in Dbs, Backend(d)
  PROVE  PersistInv'
<1>1. PICK p \in Paths \ Dirs :
         \/ /\ Parent[p] \in DOMAIN mem[d]
            /\ \E v \in 0..MaxVersion : mem' = [mem EXCEPT ![d] = With(mem[d], p, v)]
         \/ /\ p \in DOMAIN mem[d] \ Essential
            /\ mem' = [mem EXCEPT ![d] = Without(mem[d], p)]
  BY DEF Backend
<1>2. pc[d] = "running" /\ UNCHANGED <<pc, todo, saving, result, host, disturbed, kept, saved>>
  BY DEF Backend, Untouched
<1>3. TypeOK /\ WalkInv(d)
  BY DEF PersistInv
<1>4. IsTree(mem'[d]) /\ Root \in DOMAIN mem'[d]
  <2>1. CASE /\ Parent[p] \in DOMAIN mem[d]
             /\ \E v \in 0..MaxVersion : mem' = [mem EXCEPT ![d] = With(mem[d], p, v)]
    <3>1. PICK v \in 0..MaxVersion : mem' = [mem EXCEPT ![d] = With(mem[d], p, v)]
      BY <2>1
    <3>2. mem'[d] = With(mem[d], p, v)
      BY <1>3, <3>1 DEF TypeOK
    <3>3. p \in Everything /\ v \in Content /\ (IsDir(p) <=> v = Dir)
      BY PersistAssumption DEF Everything, Content, Torn, Dir, IsDir
    <3>4. IsTree(mem'[d])
      BY <1>3, <2>1, <3>2, <3>3, WithIsTree DEF TypeOK
    <3>5. Root \in DOMAIN mem'[d]
      BY <1>2, <1>3, <3>2 DEF WalkInv, With
    <3> QED BY <3>4, <3>5
  <2>2. CASE p \in DOMAIN mem[d] \ Essential /\ mem' = [mem EXCEPT ![d] = Without(mem[d], p)]
    <3>1. mem'[d] = Without(mem[d], p)
      BY <1>3, <2>2 DEF TypeOK
    <3>2. Entries(mem[d], p) = {}
      BY <1>3, PersistAssumption DEF TypeOK, IsTree, Entries, Everything
    <3>3. IsTree(mem'[d])
      BY <1>3, <3>1, <3>2, WithoutIsTree DEF TypeOK
    <3>4. Root \in DOMAIN mem'[d]
      BY <1>2, <1>3, <3>1, PersistAssumption DEF WalkInv, Without, Restrict
    <3> QED BY <3>3, <3>4
  <2> QED BY <1>1, <2>1, <2>2
<1>5. DOMAIN mem' = Dbs /\ \A e \in Dbs : e # d => mem'[e] = mem[e]
  BY <1>1, <1>3 DEF TypeOK
<1>6. TypeOK'
  BY <1>2, <1>3, <1>4, <1>5 DEF TypeOK
<1>7. WalksInv(d)' /\ SavedIsOnHost'
  BY <1>2, <1>4 DEF PersistInv, WalksInv, WalkInv, SaveInv, LoadInv, Saving, SavedIsOnHost
<1> QED BY <1>2, <1>5, <1>6, <1>7, Assemble

LEMMA CallSaveKeeps ==
  ASSUME PersistInv, NEW d \in Dbs, Sync(d) \/ Close(d)
  PROVE  PersistInv'
<1>1. PICK c \in {"sync", "close"} : pc[d] = "running" /\ BeginSave(d, c) /\ Ends(d, "none")
                                    /\ UNCHANGED <<host, mem, todo, kept, saved>>
  BY DEF Sync, Close
<1>2. TypeOK'
  BY <1>1 DEF PersistInv, TypeOK, BeginSave, Goto, Ends, BeginWalk, Points, Saving
<1>3. WalksInv(d)' /\ SavedIsOnHost'
  BY <1>1 DEF PersistInv, TypeOK, WalksInv, WalkInv, SaveInv, LoadInv, BeginSave, Goto, Ends,
     Saving, SavedIsOnHost
<1>4. \A e \in Dbs : e # d =>
        /\ pc'[e] = pc[e] /\ mem'[e] = mem[e] /\ todo'[e] = todo[e] /\ result'[e] = result[e]
        /\ host' = host /\ (disturbed'[e] <=> disturbed[e])
  BY <1>1 DEF PersistInv, TypeOK, BeginSave, Goto, Ends, BeginWalk
<1> QED BY <1>2, <1>3, <1>4, Assemble

----------------------------------------------------------------------------
(* The operations of a save.                                               *)

\* TypeOK without the histories.
TypeCore ==
    /\ IsTree(host)
    /\ DOMAIN mem = Dbs /\ \A d \in Dbs : IsTree(mem[d])
    /\ pc \in [Dbs -> Points]
    /\ todo \in [Dbs -> SUBSET Everything]
    /\ saving \in [Dbs -> {"none", "open", "sync", "close"}]
    /\ result \in [Dbs -> {"none", "ok", "error"}]
    /\ \A d \in Dbs : pc[d] \in Saving <=> saving[d] # "none"

LEMMA TypeParts ==
  ASSUME TypeCore', (disturbed \in [Dbs -> BOOLEAN])', IsTree(kept)', (saved \in BOOLEAN)'
  PROVE  TypeOK'
  BY Zenon DEF TypeOK, TypeCore

\* An operation of d on the host disturbs the others and ends the last word of
\* an earlier save.
LEMMA TouchesFacts ==
  ASSUME PersistInv, NEW d \in Dbs, Touches(d)
  PROVE  /\ (disturbed \in [Dbs -> BOOLEAN])' /\ (disturbed'[d] <=> disturbed[d])
         /\ \A e \in Dbs : e # d => (pc[e] \in Saving \union {"load"} => disturbed'[e])
         /\ IsTree(kept)' /\ (saved \in BOOLEAN)' /\ SavedIsOnHost'
<1>1. disturbed' \in [Dbs -> BOOLEAN]
  BY DEF Touches
<1>2. disturbed'[d] <=> disturbed[d]
  BY DEF Touches
<1>3. \A e \in Dbs : e # d => (pc[e] \in Saving \union {"load"} => disturbed'[e])
  BY DEF Touches
<1>4. IsTree(kept)' /\ SavedIsOnHost'
  BY NoTreeIsTree DEF Touches, SavedIsOnHost
<1>5. saved' \in BOOLEAN
  BY Zenon DEF Touches, PersistInv, TypeOK
<1> QED BY <1>1, <1>2, <1>3, <1>4, <1>5

LEMMA RemoveEntryKeeps ==
  ASSUME PersistInv, NEW d \in Dbs, RemoveEntry(d)
  PROVE  PersistInv'
<1>1. PICK p \in DOMAIN host : Entries(host, p) = {} /\ host' = Without(host, p)
  BY DEF RemoveEntry
<1>2. pc[d] = "clear" /\ Touches(d) /\ UNCHANGED <<mem, pc, todo, saving, result>>
  BY DEF RemoveEntry
<1>3. TypeOK /\ WalkInv(d)
  BY DEF PersistInv
<1>4. IsTree(host')
  BY <1>1, <1>3, WithoutIsTree DEF TypeOK
<1>5. /\ (disturbed \in [Dbs -> BOOLEAN])' /\ (disturbed'[d] <=> disturbed[d])
      /\ \A e \in Dbs : e # d => (pc[e] \in Saving \union {"load"} => disturbed'[e])
      /\ IsTree(kept)' /\ (saved \in BOOLEAN)' /\ SavedIsOnHost'
  BY <1>2, TouchesFacts
<1>6. TypeCore'
  BY <1>2, <1>3, <1>4 DEF TypeOK, TypeCore
<1>7. TypeOK'
  BY <1>5, <1>6, TypeParts
<1>8. WalksInv(d)'
  BY <1>2, <1>3 DEF WalksInv, WalkInv, SaveInv, LoadInv
<1> QED BY <1>2, <1>5, <1>7, <1>8, Assemble

LEMMA ClearedKeeps ==
  ASSUME PersistInv, NEW d \in Dbs, Cleared(d)
  PROVE  PersistInv'
<1>1. TypeOK'
  BY DEF PersistInv, TypeOK, Cleared, Goto, Untouched, Points, Saving
<1>2. WalksInv(d)' /\ SavedIsOnHost'
  BY DEF PersistInv, TypeOK, WalksInv, WalkInv, SaveInv, LoadInv, Cleared, Goto, Untouched,
     Saving, SavedIsOnHost
<1>3. \A e \in Dbs : e # d =>
        /\ pc'[e] = pc[e] /\ mem'[e] = mem[e] /\ todo'[e] = todo[e] /\ result'[e] = result[e]
        /\ host' = host /\ (disturbed'[e] <=> disturbed[e])
  BY DEF PersistInv, TypeOK, Cleared, Goto, Untouched
<1> QED BY <1>1, <1>2, <1>3, Assemble

LEMMA MakeRootKeeps ==
  ASSUME PersistInv, NEW d \in Dbs, MakeRoot(d)
  PROVE  PersistInv'
<1>1. /\ pc[d] = "mkroot" /\ host' = With(host, Root, Dir)
      /\ pc' = [pc EXCEPT ![d] = "copy"]
      /\ todo' = [todo EXCEPT ![d] = DOMAIN mem[d] \ {Root}]
      /\ Touches(d) /\ UNCHANGED <<mem, saving, result>>
  BY DEF MakeRoot, Goto
<1>2. TypeOK /\ WalkInv(d) /\ SaveInv(d)
  BY DEF PersistInv
<1>3. /\ (disturbed \in [Dbs -> BOOLEAN])' /\ (disturbed'[d] <=> disturbed[d])
      /\ \A e \in Dbs : e # d => (pc[e] \in Saving \union {"load"} => disturbed'[e])
      /\ IsTree(kept)' /\ (saved \in BOOLEAN)' /\ SavedIsOnHost'
  BY <1>1, TouchesFacts
<1>4. IsTree(host')
  <2>1. Root \in Everything /\ Dir \in Content /\ IsDir(Root) /\ IsTree(host)
    BY <1>2, PersistAssumption DEF TypeOK, Everything, Content, Torn, Dir, IsDir
  <2> QED BY <1>1, <2>1, WithIsTree
<1>5. IsTree(mem[d]) /\ DOMAIN mem[d] \subseteq Everything
  BY <1>2 DEF TypeOK, IsTree
<1>6. TypeOK'
  <2>1. TypeCore'
    BY <1>1, <1>2, <1>4, <1>5 DEF TypeOK, TypeCore, Points, Saving
  <2> QED BY <1>3, <2>1, TypeParts
<1>7. pc'[d] = "copy" /\ todo'[d] = DOMAIN mem[d] \ {Root} /\ Root \in DOMAIN mem[d]
  BY <1>1, <1>2 DEF TypeOK, WalkInv, Saving
<1>8. mem[d][Root] = Dir
  BY <1>5, <1>7 DEF IsTree, IsDir
<1>9. WalkInv(d)'
  BY <1>1, <1>2, <1>7 DEF WalkInv, Saving
<1>10. SaveInv(d)'
  <2> SUFFICES ASSUME ~disturbed'[d] PROVE SaveInv(d)'
    BY DEF SaveInv
  <2>1. host = NoTree
    BY <1>1, <1>2, <1>3 DEF SaveInv
  <2>2. DOMAIN host' = {Root} /\ host'[Root] = Dir
    BY <1>1, <2>1, NoTreeIsTree DEF With
  <2> QED BY <1>1, <1>7, <1>8, <2>2 DEF SaveInv, Visited, Agrees
<1>11. WalksInv(d)'
  BY <1>7, <1>9, <1>10 DEF WalksInv, LoadInv
<1>12. \A e \in Dbs : e # d =>
        /\ pc'[e] = pc[e] /\ mem'[e] = mem[e] /\ todo'[e] = todo[e] /\ result'[e] = result[e]
  BY <1>1, <1>2 DEF TypeOK
<1> QED BY <1>3, <1>6, <1>11, <1>12, Assemble

\* Ranks tell paths apart, so a walk has one next path.
LEMMA OneNext ==
  ASSUME NEW d \in Dbs, NEW p, NEW q, todo[d] \subseteq Everything, IsNext(d, p), IsNext(d, q)
  PROVE  p = q
<1>1. p \in Everything /\ q \in Everything /\ Rank[p] <= Rank[q] /\ Rank[q] <= Rank[p]
  BY DEF IsNext
<1>2. Rank[p] \in Nat /\ Rank[q] \in Nat
  BY <1>1, PersistAssumption
<1> QED BY <1>1, <1>2, PersistAssumption

LEMMA SaveDirKeeps ==
  ASSUME PersistInv, NEW d \in Dbs, SaveDir(d)
  PROVE  PersistInv'
<1>1. PICK p \in Dirs :
         /\ IsNext(d, p)
         /\ host' = WithDirs(host, Above(p))
         /\ todo' = [todo EXCEPT ![d] = todo[d] \ {p}]
  BY DEF SaveDir
<1>2. pc[d] = "copy" /\ Touches(d) /\ UNCHANGED <<mem, pc, saving, result>>
  BY DEF SaveDir
<1>3. TypeOK /\ WalkInv(d) /\ SaveInv(d)
  BY DEF PersistInv
<1>4. /\ (disturbed \in [Dbs -> BOOLEAN])' /\ (disturbed'[d] <=> disturbed[d])
      /\ \A e \in Dbs : e # d => (pc[e] \in Saving \union {"load"} => disturbed'[e])
      /\ IsTree(kept)' /\ (saved \in BOOLEAN)' /\ SavedIsOnHost'
  BY <1>2, TouchesFacts
<1>5. p \in Everything /\ Dir \in Content /\ IsDir(p) /\ IsTree(host)
  BY <1>3, PersistAssumption DEF Everything, Content, Torn, Dir, IsDir, TypeOK
<1>6. IsTree(host')
  BY <1>1, <1>5, WithDirsIsTree
<1>7. todo'[d] = todo[d] \ {p} /\ p \in todo[d] /\ p \in DOMAIN mem[d]
  BY <1>1, <1>2, <1>3 DEF TypeOK, IsNext, WalkInv
<1>8. TypeOK'
  <2>1. TypeCore'
    BY <1>1, <1>2, <1>3, <1>6 DEF TypeOK, TypeCore
  <2> QED BY <1>4, <2>1, TypeParts
<1>9. mem[d][p] = Dir
  BY <1>3, <1>5, <1>7 DEF TypeOK, IsTree
<1>10. WalkInv(d)'
  BY <1>2, <1>3, <1>7 DEF WalkInv, Saving
<1>11. SaveInv(d)'
  <2> SUFFICES ASSUME ~disturbed'[d] PROVE SaveInv(d)'
    BY DEF SaveInv
  <2>1. DOMAIN host = Visited(d) /\ Agrees(d, Visited(d))
    BY <1>2, <1>3, <1>4 DEF SaveInv
  <2>2. Visited(d)' = Visited(d) \union {p}
    BY <1>2, <1>7 DEF Visited
  <2>3. Parent[p] \in DOMAIN host
    <3>1. Parent[p] \in DOMAIN mem[d] /\ Parent[p] \in Everything /\ Rank[Parent[p]] < Rank[p]
      BY <1>3, <1>7, PersistAssumption DEF TypeOK, IsTree, Everything
    <3>2. Rank[Parent[p]] \in Nat /\ Rank[p] \in Nat
      BY <1>5, <3>1, PersistAssumption
    <3>3. Parent[p] \notin todo[d]
      BY <1>1, <3>1, <3>2 DEF IsNext
    <3> QED BY <2>1, <3>1, <3>3 DEF Visited
  <2>4. host' = With(host, p, Dir)
    BY <1>1, <1>5, <2>3, WithDirsInPlace
  <2>5. DOMAIN host' = Visited(d)' /\ Agrees(d, Visited(d))'
    BY <1>2, <1>9, <2>1, <2>2, <2>4 DEF With, Agrees
  <2> QED BY <1>2, <2>5 DEF SaveInv
<1>12. WalksInv(d)'
  BY <1>2, <1>10, <1>11 DEF WalksInv, LoadInv
<1>13. \A e \in Dbs : e # d =>
        /\ pc'[e] = pc[e] /\ mem'[e] = mem[e] /\ todo'[e] = todo[e] /\ result'[e] = result[e]
  BY <1>1, <1>2, <1>3 DEF TypeOK
<1> QED BY <1>4, <1>8, <1>12, <1>13, Assemble

LEMMA CreateFileKeeps ==
  ASSUME PersistInv, NEW d \in Dbs, CreateFile(d)
  PROVE  PersistInv'
<1>1. PICK p \in Paths \ Dirs :
         /\ IsNext(d, p) /\ Parent[p] \in DOMAIN host
         /\ host' = With(host, p, Torn)
  BY DEF CreateFile
<1>2. /\ pc[d] = "copy" /\ pc' = [pc EXCEPT ![d] = "writing"]
      /\ Touches(d) /\ UNCHANGED <<mem, todo, saving, result>>
  BY DEF CreateFile, Goto
<1>3. TypeOK /\ WalkInv(d) /\ SaveInv(d)
  BY DEF PersistInv
<1>4. /\ (disturbed \in [Dbs -> BOOLEAN])' /\ (disturbed'[d] <=> disturbed[d])
      /\ \A e \in Dbs : e # d => (pc[e] \in Saving \union {"load"} => disturbed'[e])
      /\ IsTree(kept)' /\ (saved \in BOOLEAN)' /\ SavedIsOnHost'
  BY <1>2, TouchesFacts
<1>5. p \in Everything /\ Torn \in Content /\ (IsDir(p) <=> Torn = Dir) /\ IsTree(host)
  BY <1>3, PersistAssumption DEF Everything, Content, Torn, Dir, IsDir, TypeOK
<1>6. IsTree(host')
  BY <1>1, <1>5, WithIsTree
<1>7. TypeOK'
  <2>1. TypeCore'
    BY <1>2, <1>3, <1>6 DEF TypeOK, TypeCore, Points, Saving
  <2> QED BY <1>4, <2>1, TypeParts
<1>8. pc'[d] = "writing" /\ p \in todo[d]
  BY <1>1, <1>2, <1>3 DEF TypeOK, IsNext
<1>9. WalkInv(d)'
  BY <1>2, <1>3, <1>8 DEF WalkInv, Saving
<1>10. SaveInv(d)'
  <2> SUFFICES ASSUME ~disturbed'[d] PROVE SaveInv(d)'
    BY DEF SaveInv
  <2>1. DOMAIN host = Visited(d) /\ Agrees(d, Visited(d))
    BY <1>2, <1>3, <1>4 DEF SaveInv
  <2>2. Visited(d)' = Visited(d) /\ p \notin Visited(d) /\ IsNext(d, p)'
    BY <1>1, <1>2, <1>8 DEF Visited, IsNext
  <2>3. DOMAIN host' = Visited(d)' \union {p} /\ Agrees(d, Visited(d))'
    BY <1>1, <1>2, <2>1, <2>2 DEF With, Agrees
  <2> QED BY <1>8, <2>2, <2>3 DEF SaveInv
<1>11. WalksInv(d)'
  BY <1>8, <1>9, <1>10 DEF WalksInv, LoadInv
<1>12. \A e \in Dbs : e # d =>
        /\ pc'[e] = pc[e] /\ mem'[e] = mem[e] /\ todo'[e] = todo[e] /\ result'[e] = result[e]
  BY <1>2, <1>3 DEF TypeOK
<1> QED BY <1>4, <1>7, <1>11, <1>12, Assemble

\* Writing the bytes completes the visit of the file that was created.
LEMMA WriteFileKeeps ==
  ASSUME PersistInv, NEW d \in Dbs, WriteFile(d)
  PROVE  PersistInv'
<1>1. PICK p \in Paths \ Dirs :
         /\ IsNext(d, p)
         /\ host' = IF p \in DOMAIN host THEN With(host, p, mem[d][p]) ELSE host
         /\ todo' = [todo EXCEPT ![d] = todo[d] \ {p}]
  BY DEF WriteFile
<1>2. /\ pc[d] = "writing" /\ pc' = [pc EXCEPT ![d] = "copy"]
      /\ Touches(d) /\ UNCHANGED <<mem, saving, result>>
  BY DEF WriteFile, Goto
<1>3. TypeOK /\ WalkInv(d) /\ SaveInv(d)
  BY DEF PersistInv
<1>4. /\ (disturbed \in [Dbs -> BOOLEAN])' /\ (disturbed'[d] <=> disturbed[d])
      /\ \A e \in Dbs : e # d => (pc[e] \in Saving \union {"load"} => disturbed'[e])
      /\ IsTree(kept)' /\ (saved \in BOOLEAN)' /\ SavedIsOnHost'
  BY <1>2, TouchesFacts
<1>5. /\ pc'[d] = "copy" /\ todo'[d] = todo[d] \ {p}
      /\ p \in todo[d] /\ p \in DOMAIN mem[d] /\ todo[d] \subseteq Everything
  BY <1>1, <1>2, <1>3 DEF TypeOK, IsNext, WalkInv
<1>6. IsTree(host')
  <2>1. p \in Everything /\ mem[d][p] \in Content /\ (IsDir(p) <=> mem[d][p] = Dir) /\ IsTree(host)
    BY <1>3, <1>5 DEF TypeOK, IsTree
  <2>2. p \in DOMAIN host => Parent[p] \in DOMAIN host
    BY <2>1, PersistAssumption DEF IsTree
  <2> QED BY <1>1, <2>1, <2>2, WithIsTree
<1>7. TypeOK'
  <2>1. TypeCore'
    BY <1>1, <1>2, <1>3, <1>6 DEF TypeOK, TypeCore, Points, Saving
  <2> QED BY <1>4, <2>1, TypeParts
<1>8. WalkInv(d)'
  BY <1>2, <1>3, <1>5 DEF WalkInv, Saving
<1>9. SaveInv(d)'
  <2> SUFFICES ASSUME ~disturbed'[d] PROVE SaveInv(d)'
    BY DEF SaveInv
  <2>1. PICK q \in Paths \ Dirs : /\ IsNext(d, q)
                                  /\ DOMAIN host = Visited(d) \union {q}
                                  /\ Agrees(d, Visited(d))
    BY <1>2, <1>3, <1>4 DEF SaveInv
  <2>2. q = p
    BY <1>1, <1>5, <2>1, OneNext
  <2>3. Visited(d)' = Visited(d) \union {p}
    BY <1>2, <1>5 DEF Visited
  <2>4. DOMAIN host' = Visited(d)' /\ Agrees(d, Visited(d))'
    BY <1>1, <1>2, <2>1, <2>2, <2>3 DEF With, Agrees
  <2> QED BY <1>5, <2>4 DEF SaveInv
<1>10. WalksInv(d)'
  BY <1>5, <1>8, <1>9 DEF WalksInv, LoadInv
<1>11. \A e \in Dbs : e # d =>
        /\ pc'[e] = pc[e] /\ mem'[e] = mem[e] /\ todo'[e] = todo[e] /\ result'[e] = result[e]
  BY <1>1, <1>2, <1>3 DEF TypeOK
<1> QED BY <1>4, <1>7, <1>10, <1>11, Assemble

\* An undisturbed walk that has nothing left has made the host the process's tree.
LEMMA CompleteSave ==
  ASSUME PersistInv, NEW d \in Dbs, pc[d] = "copy", todo[d] = {}, ~disturbed[d]
  PROVE  host = mem[d]
<1>1. IsTree(host) /\ IsTree(mem[d])
  BY DEF PersistInv, TypeOK
<1>2. DOMAIN host = DOMAIN mem[d] /\ \A p \in DOMAIN host : host[p] = mem[d][p]
  BY DEF PersistInv, SaveInv, Visited, Agrees
<1> QED BY <1>1, <1>2, SameTree

\* SaveSubtree returns; to Open it returns the tree it was given.
LEMMA SaveReturnsKeeps ==
  ASSUME PersistInv, NEW d \in Dbs, NEW r \in Outcomes, pc[d] \in Saving, SaveReturns(d, r),
         UNCHANGED <<host, disturbed>>, IsTree(kept)', (saved \in BOOLEAN)', SavedIsOnHost',
         r # "error" => (~disturbed[d] => host = mem[d])
  PROVE  PersistInv'
<1>1. CASE saving[d] = "close" \/ (saving[d] = "open" /\ r = "error")
  BY <1>1, OffKeeps DEF SaveReturns
<1>2. CASE ~(saving[d] = "close" \/ (saving[d] = "open" /\ r = "error"))
  <2>1. /\ pc' = [pc EXCEPT ![d] = IF saving[d] = "open" THEN "load" ELSE "running"]
        /\ result' = [result EXCEPT ![d] = r]
        /\ todo' = [todo EXCEPT ![d] = {}] /\ saving' = [saving EXCEPT ![d] = "none"]
        /\ mem' = mem
    BY <1>2 DEF SaveReturns, Goto, Ends
  <2>2. TypeOK /\ WalkInv(d)
    BY DEF PersistInv
  <2>3. TypeOK'
    <3>1. TypeCore'
      BY <2>1, <2>2 DEF TypeOK, TypeCore, Points, Saving, Outcomes
    <3>2. (disturbed \in [Dbs -> BOOLEAN])'
      BY <2>2 DEF TypeOK
    <3> QED BY <3>1, <3>2, TypeParts
  <2>4. /\ pc'[d] = IF saving[d] = "open" THEN "load" ELSE "running"
        /\ todo'[d] = {} /\ mem'[d] = mem[d] /\ Root \in DOMAIN mem[d]
    BY <2>1, <2>2 DEF TypeOK, WalkInv
  <2>5. WalkInv(d)'
    BY <2>4 DEF WalkInv, Saving
  <2>6. LoadInv(d)'
    <3> SUFFICES ASSUME pc'[d] = "load", ~disturbed'[d] PROVE LoadInv(d)'
      BY DEF LoadInv
    <3>1. host = mem[d]
      BY <1>2, <2>4
    <3> QED BY <2>4, <3>1 DEF LoadInv, Agrees
  <2>7. WalksInv(d)'
    BY <2>4, <2>5, <2>6 DEF WalksInv, SaveInv
  <2>8. \A e \in Dbs : e # d =>
        /\ pc'[e] = pc[e] /\ mem'[e] = mem[e] /\ todo'[e] = todo[e] /\ result'[e] = result[e]
        /\ host' = host /\ (disturbed'[e] <=> disturbed[e])
    BY <2>1, <2>2 DEF TypeOK
  <2> QED BY <2>3, <2>7, <2>8, Assemble
<1> QED BY <1>1, <1>2

LEMMA SaveDoneKeeps ==
  ASSUME PersistInv, NEW d \in Dbs, SaveDone(d)
  PROVE  PersistInv'
<1>1. /\ pc[d] = "copy" /\ todo[d] = {} /\ SaveReturns(d, "ok")
      /\ kept' = IF disturbed[d] THEN NoTree ELSE mem[d]
      /\ UNCHANGED <<host, disturbed>>
  BY DEF SaveDone
<1>2. (saved \in BOOLEAN)'
  BY DEF SaveDone
<1>3. ~disturbed[d] => host = mem[d]
  BY <1>1, CompleteSave
<1>4. IsTree(kept)'
  BY <1>1, NoTreeIsTree DEF PersistInv, TypeOK
<1>5. SavedIsOnHost'
  BY <1>1, <1>3 DEF SavedIsOnHost
<1>6. pc[d] \in Saving /\ "ok" \in Outcomes
  BY <1>1 DEF Saving, Outcomes
<1> QED BY <1>1, <1>2, <1>3, <1>4, <1>5, <1>6, SaveReturnsKeeps

\* The end of a save by an error, of a load by an error, and of the process.
LEMMA EndsKeep ==
  ASSUME PersistInv, NEW d \in Dbs, SaveFails(d) \/ LoadFails(d) \/ Crash(d)
  PROVE  PersistInv'
<1>1. Untouched
  BY DEF SaveFails, LoadFails, Crash
<1>2. UNCHANGED <<host, disturbed>> /\ IsTree(kept)' /\ (saved \in BOOLEAN)' /\ SavedIsOnHost'
  BY <1>1 DEF Untouched, PersistInv, TypeOK, SavedIsOnHost
<1>3. CASE SaveFails(d)
  BY <1>2, <1>3, SaveReturnsKeeps DEF SaveFails, Outcomes
<1>4. CASE LoadFails(d)
  BY <1>2, <1>4, OffKeeps DEF LoadFails, Outcomes
<1>5. CASE Crash(d)
  BY <1>2, <1>5, OffKeeps DEF Crash, Outcomes
<1> QED BY <1>3, <1>4, <1>5

----------------------------------------------------------------------------
(* Theorems.                                                               *)

LEMMA PersistInvInductive == Spec => []PersistInv
<1>1. Init => PersistInv
  BY InitPersistInv
<1>2. PersistInv /\ [Next]_vars => PersistInv'
  <2> SUFFICES ASSUME PersistInv, [Next]_vars PROVE PersistInv'
    OBVIOUS
  <2>1. CASE UNCHANGED vars
    <3>1. TypeOK' /\ SavedIsOnHost'
      BY <2>1 DEF vars, PersistInv, TypeOK, SavedIsOnHost
    <3>2. ASSUME NEW d \in Dbs PROVE WalkInv(d)' /\ SaveInv(d)' /\ LoadInv(d)'
      <4>1. WalkInv(d)'
        BY <2>1 DEF vars, PersistInv, WalkInv
      <4>2. SaveInv(d)'
        BY <2>1 DEF vars, PersistInv, SaveInv, Visited, Agrees, IsNext
      <4>3. LoadInv(d)'
        BY <2>1 DEF vars, PersistInv, LoadInv, Visited, Agrees, IsNext
      <4> QED
        BY <4>1, <4>2, <4>3
    <3> QED
      BY <3>1, <3>2 DEF PersistInv
  <2>2. CASE Next
    <3>1. PICK d \in Dbs :
            \/ Load(d) \/ Initdb(d) \/ LoadEntry(d) \/ LoadFails(d) \/ StartWire(d)
            \/ Backend(d) \/ Sync(d) \/ Close(d) \/ SaveStep(d) \/ SaveFails(d) \/ Crash(d)
      BY <2>2 DEF Next
    <3>2. CASE Load(d) \/ Initdb(d) \/ LoadEntry(d) \/ StartWire(d) \/ Backend(d)
      BY <3>2, LoadKeeps, InitdbKeeps, LoadEntryKeeps, StartWireKeeps, BackendKeeps
    <3>3. CASE Sync(d) \/ Close(d) \/ SaveFails(d) \/ LoadFails(d) \/ Crash(d)
      BY <3>3, CallSaveKeeps, EndsKeep
    <3>4. CASE SaveStep(d)
      BY <3>4, RemoveEntryKeeps, ClearedKeeps, MakeRootKeeps, SaveDirKeeps, CreateFileKeeps,
         WriteFileKeeps, SaveDoneKeeps DEF SaveStep
    <3> QED BY <3>1, <3>2, <3>3, <3>4
  <2> QED BY <2>1, <2>2
<1> QED BY <1>1, <1>2, PTL DEF Spec

\* Trees stay trees and walks stay within them, for any number of processes.
THEOREM PersistTypeCorrect == Spec => []TypeOK
<1>1. PersistInv => TypeOK
  BY DEF PersistInv
<1> QED BY <1>1, PersistInvInductive, PTL

\* What a complete undisturbed save left is on the host until the next save
\* begins to remove it.
THEOREM SavedStaysOnHost == Spec => []SavedIsOnHost
<1>1. PersistInv => SavedIsOnHost
  BY DEF PersistInv
<1> QED BY <1>1, PersistInvInductive, PTL

\* SaveSubtree reports success to Sync, Close or Open only when the host holds
\* the process's tree, if nobody else worked on the directory.
THEOREM SuccessMeansSaved == Spec => SuccessIsSaved
<1>1. PersistInv /\ [Next]_vars =>
        [\A d \in Dbs : pc[d] \in Saving /\ result'[d] = "ok" /\ ~disturbed[d] => host' = mem[d]]_vars
  <2> SUFFICES ASSUME PersistInv, Next, NEW d \in Dbs,
                      pc[d] \in Saving, result'[d] = "ok", ~disturbed[d]
               PROVE  host' = mem[d]
    BY DEF vars
  <2>1. result[d] = "none" /\ TypeOK
    BY DEF PersistInv, WalkInv
  <2>2. PICK e \in Dbs :
          \/ Load(e) \/ Initdb(e) \/ LoadEntry(e) \/ LoadFails(e) \/ StartWire(e)
          \/ Backend(e) \/ Sync(e) \/ Close(e) \/ SaveStep(e) \/ SaveFails(e) \/ Crash(e)
    BY DEF Next
  <2>3. result' # result
    BY <2>1
  <2>4. e = d /\ SaveDone(d)
    <3>1. \E r \in {"none", "error", "ok"} : result' = [result EXCEPT ![e] = r]
      BY <2>2, <2>3 DEF Load, Initdb, LoadEntry, LoadFails, StartWire, Backend, Sync, Close, SaveStep,
         SaveFails, Crash, RemoveEntry, Cleared, MakeRoot, SaveDir, CreateFile, WriteFile, SaveDone,
         SaveReturns, Off, Ends
    <3>2. e = d
      BY <2>1, <3>1 DEF TypeOK
    <3>3. CASE SaveDone(d)
      BY <3>2, <3>3
    <3>4. CASE ~SaveDone(d)
      BY <2>1, <2>2, <2>3, <3>2, <3>4 DEF Load, Initdb, LoadEntry, LoadFails, StartWire, Backend, Sync,
         Close, SaveStep, SaveFails, Crash, RemoveEntry, Cleared, MakeRoot, SaveDir, CreateFile,
         WriteFile, SaveReturns, Off, Ends, Saving, TypeOK
    <3> QED BY <3>3, <3>4
  <2>5. host' = host /\ host = mem[d]
    BY <2>4, CompleteSave DEF SaveDone
  <2> QED BY <2>5
<1> QED BY <1>1, PersistInvInductive, PTL DEF Spec, SuccessIsSaved

\* A walk that has visited everything it met has loaded every entry of the host:
\* otherwise the first one missing, in the order of the walk, has its directory
\* loaded and was met.
LEMMA CompleteLoad ==
  ASSUME PersistInv, NEW d \in Dbs, pc[d] = "load", todo[d] = {}, ~disturbed[d]
  PROVE  mem[d] = host
<1>1. IsTree(host) /\ IsTree(mem[d]) /\ Root \in DOMAIN mem[d]
  BY DEF PersistInv, TypeOK, WalkInv
<1>2. /\ DOMAIN mem[d] \subseteq DOMAIN host
      /\ \A p \in DOMAIN mem[d] : host[p] = mem[d][p]
      /\ \A p \in DOMAIN host \ {Root} : p \in DOMAIN mem[d] \/ Parent[p] \notin DOMAIN mem[d]
  BY DEF PersistInv, LoadInv, Agrees
<1>3. DOMAIN host \subseteq DOMAIN mem[d]
  <2> SUFFICES ASSUME DOMAIN host \ DOMAIN mem[d] # {} PROVE FALSE
    OBVIOUS
  <2> DEFINE missing == DOMAIN host \ DOMAIN mem[d]
  <2> DEFINE ranks == {Rank[p] : p \in missing}
  <2>1. ranks \subseteq Nat /\ ranks # {}
    BY <1>1, PersistAssumption DEF IsTree
  <2>2. PICK n \in ranks : \A k \in ranks : n <= k
    BY <2>1, LeastNat
  <2>3. PICK p \in missing : Rank[p] = n
    OBVIOUS
  <2>4. p \in Paths /\ p # Root /\ Parent[p] \in DOMAIN host
    BY <1>1, <2>3 DEF IsTree, Everything
  <2>5. Parent[p] \in missing
    BY <1>2, <2>3, <2>4
  <2>6. Rank[Parent[p]] < Rank[p] /\ n <= Rank[Parent[p]]
    BY <2>2, <2>4, <2>5, PersistAssumption
  <2> QED BY <2>1, <2>3, <2>5, <2>6
<1> QED BY <1>1, <1>2, <1>3, SameTree

\* The cluster that the next Open loads is the one saved.
THEOREM ReopenLoadsSaved == Spec => []ReopenedIsSaved
<1>1. PersistInv => ReopenedIsSaved
  BY CompleteLoad DEF PersistInv, ReopenedIsSaved, SavedIsOnHost
<1> QED BY <1>1, PersistInvInductive, PTL
============================================================================
