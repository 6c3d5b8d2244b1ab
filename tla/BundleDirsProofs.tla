-------------------------- MODULE BundleDirsProofs --------------------------
(***************************************************************************)
(* Proofs about BundleDirs, for any tree of paths, any number of uploads   *)
(* and any passive_gc_min_age.  The operators on the tree are reduced to   *)
(* what they do to `there`, `files` and `meta` of each directory first;    *)
(* the steps are then argued from those facts.                             *)
(***************************************************************************)
EXTENDS BundleDirs, TLAPS

FS == [Dirs -> Directory \cup {Absent}]

-----------------------------------------------------------------------------
(* The tree of paths and the filesystem's operators *)

\* Being below is transitive, and nothing is below itself.
LEMMA TreeFacts ==
    /\ \A d \in Dirs : Tree(d) \subseteq Dirs /\ Under[d] \subseteq Dirs /\ d \in Tree(d)
    /\ \A d \in Dirs : d \notin Under[d] /\ d \notin Above(d)
    /\ \A d, e \in Dirs : e \in Above(d) <=> d \in Under[e]
    /\ \A d, e, f \in Dirs : e \in Under[d] /\ f \in Under[e] => f \in Under[d]
    /\ \A d, e, f \in Dirs : e \in Tree(d) /\ f \in Under[e] => f \in Under[d]
  BY TreeAssumption DEF Tree, Above

\* A directory that is not there is Absent; one that is has the shape of one.
LEMMA ShapeFacts ==
    ASSUME NEW f \in FS, NEW d \in Dirs
    PROVE  /\ f[d].there \in BOOLEAN
           /\ f[d].files \in SUBSET Names /\ f[d].meta \in SUBSET Names /\ f[d].age \in 0..MinAge
           /\ ~f[d].there => f[d] = Absent /\ f[d].files = {} /\ f[d].meta = {}
           /\ f[d].there => f[d] \in Directory
<1>1. f[d] \in Directory \/ f[d] = Absent
  BY DEF FS
<1>2. CASE f[d] \in Directory
  <2>1. f[d].there = TRUE
    BY <1>2 DEF Directory
  <2>2. f[d].files \in SUBSET Names /\ f[d].meta \in SUBSET Names /\ f[d].age \in 0..MinAge
    BY <1>2 DEF Directory
  <2> QED
    BY <1>2, <2>1, <2>2
<1>3. CASE f[d] = Absent
  <2>1. f[d].there = FALSE /\ f[d].files = {} /\ f[d].meta = {} /\ f[d].age = 0
    BY <1>3 DEF Absent
  <2>2. 0 \in 0..MinAge
    BY BundleDirsAssumption
  <2> QED
    BY <1>3, <2>1, <2>2
<1> QED
  BY <1>1, <1>2, <1>3

\* The mtime is renewed by 0, which is an age.
LEMMA TouchFacts ==
    ASSUME NEW r \in Directory
    PROVE  LET s == [r EXCEPT !.age = 0] IN
           /\ s \in Directory /\ s.there = TRUE /\ s.files = r.files /\ s.meta = r.meta
           /\ r.there = TRUE
<1>1. 0 \in 0..MinAge
  BY BundleDirsAssumption
<1> QED
  BY <1>1 DEF Directory

\* mkdir adds the directory and those above it, and changes no file.
LEMMA MakeDirFacts ==
    ASSUME NEW f \in FS, NEW d \in Dirs
    PROVE  /\ MakeDir(f, d) \in FS
           /\ \A e \in Dirs : /\ MakeDir(f, d)[e].files = f[e].files
                              /\ MakeDir(f, d)[e].meta = f[e].meta
                              /\ MakeDir(f, d)[e].there = (f[e].there \/ e = d \/ e \in Above(d))
<1> DEFINE new == {e \in Above(d) \cup {d} : ~f[e].there}
           g == MakeDir(f, d)
<1>1. g = [e \in Dirs |-> IF e \in new THEN Empty
                          ELSE IF \E n \in new : IsParent(e, n) THEN [f[e] EXCEPT !.age = 0]
                          ELSE f[e]]
  BY DEF MakeDir
<1>2. ASSUME NEW e \in Dirs
      PROVE  /\ g[e] \in Directory \cup {Absent}
             /\ g[e].files = f[e].files /\ g[e].meta = f[e].meta
             /\ g[e].there = (f[e].there \/ e = d \/ e \in Above(d))
  <2>1. f[e] \in Directory \cup {Absent}
    BY DEF FS
  <2>2. CASE e \in new
    <3>1. g[e] = Empty /\ ~f[e].there /\ (e = d \/ e \in Above(d))
      BY <1>1, <2>2
    <3>2. f[e].files = {} /\ f[e].meta = {}
      BY <3>1, ShapeFacts
    <3>3. Empty \in Directory
      BY BundleDirsAssumption DEF Empty, Directory
    <3> QED
      <4>1. Empty.there = TRUE /\ Empty.files = {} /\ Empty.meta = {}
        BY DEF Empty
      <4>2. g[e].there = TRUE /\ g[e].files = {} /\ g[e].meta = {} /\ g[e] \in Directory
        BY <3>1, <3>3, <4>1
      <4> QED
        BY <3>1, <3>2, <4>2
  <2>3. CASE e \notin new
    <3>1. g[e] = f[e] \/ (g[e] = [f[e] EXCEPT !.age = 0] /\ \E n \in new : IsParent(e, n))
      BY <1>1, <2>3
    <3>2. f[e].there = (f[e].there \/ e = d \/ e \in Above(d))
      BY <2>3, ShapeFacts
    <3>3. \A n \in new : IsParent(e, n) => f[e].there
      BY <2>3, TreeFacts DEF IsParent, Above
    <3>4. CASE g[e] = f[e]
      BY <2>1, <3>2, <3>4
    <3>5. CASE g[e] = [f[e] EXCEPT !.age = 0] /\ \E n \in new : IsParent(e, n)
      <4>1. f[e] \in Directory
        BY <3>3, <3>5, ShapeFacts
      <4> QED
        BY <3>2, <3>5, <4>1, TouchFacts
    <3> QED
      BY <3>1, <3>4, <3>5
  <2> QED
    BY <2>2, <2>3
<1> QED
  BY <1>1, <1>2 DEF FS

\* rmtree leaves nothing of the trees, and everything else.
LEMMA RemoveFacts ==
    ASSUME NEW f \in FS, NEW D \in SUBSET Dirs,
           \A d \in Dirs, a \in Dirs : a \in Above(d) /\ f[d].there => f[a].there
    PROVE  /\ Remove(f, D) \in FS
           /\ \A e \in Dirs : e \in Trees(D) => Remove(f, D)[e] = Absent
           /\ \A e \in Dirs : e \notin Trees(D) =>
                /\ Remove(f, D)[e].files = f[e].files /\ Remove(f, D)[e].meta = f[e].meta
                /\ Remove(f, D)[e].there = f[e].there
<1> DEFINE g == Remove(f, D)
<1>1. g = [e \in Dirs |->
             IF e \in Trees(D) THEN Absent
             ELSE IF \E d \in D : f[d].there /\ IsParent(e, d) THEN [f[e] EXCEPT !.age = 0]
             ELSE f[e]]
  BY DEF Remove
<1>2. ASSUME NEW e \in Dirs, e \notin Trees(D)
      PROVE  /\ g[e] \in Directory \cup {Absent}
             /\ g[e].files = f[e].files /\ g[e].meta = f[e].meta /\ g[e].there = f[e].there
  <2>1. CASE g[e] = f[e]
    BY <2>1 DEF FS
  <2>2. CASE g[e] = [f[e] EXCEPT !.age = 0] /\ \E d \in D : f[d].there /\ IsParent(e, d)
    <3>1. f[e] \in Directory
      BY <2>2, ShapeFacts DEF IsParent
    <3> QED
      BY <2>2, <3>1, TouchFacts
  <2> QED
    BY <1>1, <1>2, <2>1, <2>2
<1>3. \A e \in Dirs : e \in Trees(D) => g[e] = Absent
  BY <1>1
<1> QED
  BY <1>1, <1>2, <1>3 DEF FS

\* write_file adds the directory, those above it and the file.
LEMMA AddFileFacts ==
    ASSUME NEW f \in FS, NEW d \in Dirs, NEW n \in Names
    PROVE  /\ AddFile(f, d, n) \in FS
           /\ AddFile(f, d, n)[d].files = f[d].files \cup {n}
           /\ \A e \in Dirs : /\ e # d => AddFile(f, d, n)[e].files = f[e].files
                              /\ AddFile(f, d, n)[e].meta = f[e].meta
                              /\ AddFile(f, d, n)[e].there = (f[e].there \/ e = d \/ e \in Above(d))
<1> DEFINE g == MakeDir(f, d)
           h == AddFile(f, d, n)
<1>1. /\ g \in FS /\ g[d].there
      /\ \A e \in Dirs : /\ g[e].files = f[e].files /\ g[e].meta = f[e].meta
                         /\ g[e].there = (f[e].there \/ e = d \/ e \in Above(d))
  BY MakeDirFacts
<1>2. g[d] \in Directory
  BY <1>1, ShapeFacts
<1>3. h = [g EXCEPT ![d] = [g[d] EXCEPT !.files = @ \cup {n},
                                        !.age = IF n \in g[d].files THEN @ ELSE 0]]
  BY <1>1, <1>2 DEF AddFile, FS, Directory
<1>4. h[d] \in Directory /\ h[d].files = g[d].files \cup {n} /\ h[d].meta = g[d].meta /\ h[d].there = TRUE
  <2>1. PICK k \in 0..MinAge : h[d] = [g[d] EXCEPT !.files = g[d].files \cup {n}, !.age = k]
    <3>0. 0 \in 0..MinAge
      BY BundleDirsAssumption
    <3>1. 0 \in 0..MinAge /\ g[d].age \in 0..MinAge
      BY <1>1, <3>0, ShapeFacts
    <3>2. h[d] = [g[d] EXCEPT !.files = @ \cup {n}, !.age = IF n \in g[d].files THEN @ ELSE 0]
      BY <1>1, <1>3 DEF FS
    <3> QED
      BY <3>1, <3>2
  <2> QED
    BY <1>2, <2>1 DEF Directory
<1>5. \A e \in Dirs \ {d} : h[e] = g[e]
  BY <1>1, <1>3 DEF FS
<1>6. h \in FS
  BY <1>1, <1>3, <1>4 DEF FS
<1> QED
  BY <1>1, <1>4, <1>5, <1>6

\* commit adds meta.json to a directory that is there.
LEMMA AddMetaFacts ==
    ASSUME NEW f \in FS, NEW d \in Dirs, f[d].there, NEW m \in SUBSET Names
    PROVE  /\ AddMeta(f, d, m) \in FS
           /\ AddMeta(f, d, m)[d].meta = m /\ AddMeta(f, d, m)[d].files = f[d].files
           /\ AddMeta(f, d, m)[d].there
           /\ \A e \in Dirs \ {d} : AddMeta(f, d, m)[e] = f[e]
<1>1. f[d] \in Directory
  BY ShapeFacts
<1>2. AddMeta(f, d, m) = [f EXCEPT ![d] = [f[d] EXCEPT !.meta = m, !.age = 0]]
  BY <1>1 DEF AddMeta, FS, Directory
<1>3. 0 \in 0..MinAge
  BY BundleDirsAssumption
<1>4. [f[d] EXCEPT !.meta = m, !.age = 0] \in Directory
  BY <1>1, <1>3 DEF Directory
<1>5. /\ AddMeta(f, d, m)[d] = [f[d] EXCEPT !.meta = m, !.age = 0]
      /\ \A e \in Dirs \ {d} : AddMeta(f, d, m)[e] = f[e]
      /\ AddMeta(f, d, m) \in FS
  BY <1>2, <1>4 DEF FS
<1>6. /\ AddMeta(f, d, m)[d].meta = m /\ AddMeta(f, d, m)[d].files = f[d].files
      /\ AddMeta(f, d, m)[d].there = TRUE
  BY <1>1, <1>5 DEF Directory
<1> QED
  BY <1>5, <1>6

\* An inline write leaves a complete bundle at its path.
LEMMA WholeFacts ==
    ASSUME NEW f \in FS, NEW d \in Dirs, NEW m \in SUBSET Names
    PROVE  /\ WholeBundle(f, d, m) \in FS
           /\ WholeBundle(f, d, m)[d].meta = m /\ WholeBundle(f, d, m)[d].files = m
           /\ \A e \in Dirs : WholeBundle(f, d, m)[e].there = (f[e].there \/ e = d \/ e \in Above(d))
           /\ \A e \in Dirs \ {d} : /\ WholeBundle(f, d, m)[e].meta = f[e].meta
                                    /\ WholeBundle(f, d, m)[e].files = f[e].files
<1> DEFINE g == MakeDir(f, d)
           h == WholeBundle(f, d, m)
<1>1. /\ g \in FS /\ g[d].there
      /\ \A e \in Dirs : /\ g[e].files = f[e].files /\ g[e].meta = f[e].meta
                         /\ g[e].there = (f[e].there \/ e = d \/ e \in Above(d))
  BY MakeDirFacts
<1>2. g[d] \in Directory
  BY <1>1, ShapeFacts
<1>3. h = [g EXCEPT ![d] = [g[d] EXCEPT !.files = m, !.meta = m]]
  BY <1>1, <1>2 DEF WholeBundle, FS, Directory
<1>4. h[d] \in Directory /\ h[d].files = m /\ h[d].meta = m /\ h[d].there
  BY <1>1, <1>2, <1>3 DEF FS, Directory
<1>5. h \in FS /\ \A e \in Dirs \ {d} : h[e] = g[e]
  BY <1>1, <1>3, <1>4 DEF FS
<1> QED
  BY <1>1, <1>4, <1>5

-----------------------------------------------------------------------------
(* Bundles are whole.  An upload that was never hurt finds its directory and *)
(* every file it wrote (Safe); a directory never lies below a missing one    *)
(* (Closed), so that removing or making one says what becomes of the others. *)

Closed == \A d, a \in Dirs : a \in Above(d) /\ fs[d].there => fs[a].there

Safe == \A u \in Running \ hurt : /\ fs[upload[u].dir].there
                                  /\ upload[u].written \subseteq fs[upload[u].dir].files

WholeInv == TypeOK /\ Closed /\ Safe /\ CommittedWhole

\* A running upload has a writer.
LEMMA WriterFacts ==
    ASSUME TypeOK, NEW u \in Uploads, upload[u] # Idle
    PROVE  /\ upload[u] \in Writer /\ upload[u].dir \in Dirs
           /\ upload[u].manifest \in Manifest /\ upload[u].written \in SUBSET Names
           /\ upload[u].manifest \in SUBSET Names
  BY DEF TypeOK, Writer, Manifest

\* The trees of the removed directories, for one directory.
LEMMA TreesOne == ASSUME NEW d PROVE Trees({d}) = Tree(d)
  BY DEF Trees

\* What lies below a removed directory is removed with it.
LEMMA TreesClosed ==
    ASSUME NEW D \in SUBSET Dirs
    PROVE  /\ Trees(D) \subseteq Dirs
           /\ D \subseteq Trees(D)
           /\ \A d, a \in Dirs : a \in Trees(D) /\ a \in Above(d) => d \in Trees(D)
           /\ \A d \in Trees(D) : \E e \in D : d \in Tree(e)
  BY TreeFacts DEF Trees, Tree

\* Reaping: the trees of whole orphans go, nested files go, nothing else does.
LEMMA SweepFacts ==
    ASSUME TypeOK, Closed, Sweep
    PROVE  LET whole == {d \in Due : HasFiles(fs, d)} IN
           /\ fs' \in FS
           /\ whole \in SUBSET Dirs
           /\ \A e \in Trees(whole) : fs'[e] = Absent
           /\ \A e \in Dirs \ Trees(whole) :
                /\ fs'[e].there = fs[e].there /\ fs'[e].meta = fs[e].meta
                /\ fs'[e].files \subseteq fs[e].files
                /\ e \notin Due => fs'[e].files = fs[e].files
           /\ \A e \in Due : e \in Dirs /\ fs[e].meta = {} /\ fs[e].files # {} /\ Reached(fs, e)
<1> DEFINE whole == {d \in Due : HasFiles(fs, d)}
           g == Remove(fs, whole)
<1>1. \A e \in Due : e \in Dirs /\ fs[e].meta = {} /\ fs[e].files # {} /\ Reached(fs, e)
  BY DEF Due, Orphan
<1>2. whole \in SUBSET Dirs /\ fs \in FS
  BY <1>1 DEF TypeOK, FS
<1>3. /\ g \in FS
      /\ \A e \in Dirs : e \in Trees(whole) => g[e] = Absent
      /\ \A e \in Dirs : e \notin Trees(whole) =>
           g[e].files = fs[e].files /\ g[e].meta = fs[e].meta /\ g[e].there = fs[e].there
  BY <1>2, RemoveFacts DEF Closed
<1>4. fs' = [e \in Dirs |-> IF e \in Due \ whole
                            THEN [g[e] EXCEPT !.files = @ \ Nested, !.age = 0] ELSE g[e]]
  BY DEF Sweep, RemoveNested
<1>5. ASSUME NEW e \in Due \ whole
      PROVE  /\ fs'[e] \in Directory \cup {Absent} /\ fs'[e].there = g[e].there
             /\ fs'[e].meta = g[e].meta /\ fs'[e].files \subseteq g[e].files
             /\ g[e] = Absent => fs'[e] = Absent
  <2>1. e \in Dirs /\ fs'[e] = [g[e] EXCEPT !.files = @ \ Nested, !.age = 0]
    BY <1>1, <1>4
  <2>2. 0 \in 0..MinAge
    BY BundleDirsAssumption
  <2>3. CASE g[e] \in Directory
    <3>1. fs'[e] \in Directory /\ fs'[e].meta = g[e].meta /\ fs'[e].files \subseteq g[e].files
      BY <2>1, <2>2, <2>3 DEF Directory
    <3>2. fs'[e].there = TRUE /\ g[e].there = TRUE
      BY <2>3, <3>1 DEF Directory
    <3>3. Absent.there = FALSE
      BY DEF Absent
    <3> QED
      BY <3>1, <3>2, <3>3
  <2>4. e \notin Trees(whole)
    <3> SUFFICES ASSUME NEW w \in whole, e \in Tree(w) PROVE FALSE
      BY <1>2, TreesClosed
    <3>1. w \in Above(e) /\ HasFiles(fs, w)
      BY <1>2, <2>1, TreeFacts DEF Tree
    <3> QED
      BY <1>1, <3>1 DEF Reached
  <2>5. g[e] \in Directory
    BY <1>1, <1>3, <2>1, <2>4, ShapeFacts DEF Reached
  <2> QED
    BY <2>3, <2>5
<1>6. \A e \in Dirs \ (Due \ whole) : fs'[e] = g[e]
  BY <1>4
<1>7. fs' \in FS
  BY <1>3, <1>4, <1>5, <1>6 DEF FS
<1>8. \A e \in Trees(whole) : e \in Dirs
  BY <1>2, TreesClosed
<1>9. \A e \in Trees(whole) : fs'[e] = Absent
  BY <1>3, <1>5, <1>6, <1>8
<1>10. \A e \in Dirs \ Trees(whole) :
         /\ fs'[e].there = fs[e].there /\ fs'[e].meta = fs[e].meta
         /\ fs'[e].files \subseteq fs[e].files
         /\ e \notin Due => fs'[e].files = fs[e].files
  BY <1>3, <1>5, <1>6
<1> QED
  BY <1>1, <1>2, <1>7, <1>9, <1>10

\* A cut-off removal only takes away, and what it tore is known.
LEMMA CutOffFacts ==
    ASSUME TypeOK, Closed, NEW d \in Dirs, CutOff(d)
    PROVE  /\ fs' \in FS
           /\ \A e \in Dirs : /\ fs'[e].there => fs[e].there
                              /\ fs'[e].meta = fs[e].meta \/ fs'[e].meta = {}
                              /\ fs'[e].files \subseteq fs[e].files
                              /\ e \notin torn' => \/ fs'[e].meta = {}
                                                   \/ fs'[e].files = fs[e].files /\ e \notin torn
           /\ \A e \in Dirs \ Tree(d) : fs'[e] = fs[e]
           /\ Closed'
           /\ torn' \subseteq Dirs
<1>1. PICK left \in SUBSET {e \in Under[d] : fs[e].there} :
      \E bare \in SUBSET {e \in {d} \cup left : Committed(e)},
         cut \in SUBSET {x \in ({d} \cup left) \X Names : x[2] \in fs[x[1]].files} :
         LET Cut(e) == {n \in Names : <<e, n>> \in cut}
             Touched(e) == \/ Cut(e) # {} \/ e \in bare
                           \/ \E c \in Under[d] \ left : fs[c].there /\ IsParent(e, c)
         IN /\ \A e \in left : Above(e) \cap Under[d] \subseteq left
            /\ fs' = [e \in Dirs |->
                 IF e \in {d} \cup left
                 THEN [fs[e] EXCEPT !.files = @ \ Cut(e),
                                    !.meta = IF e \in bare THEN {} ELSE @,
                                    !.age = IF Touched(e) THEN 0 ELSE @]
                 ELSE IF e \in Under[d] THEN Absent ELSE fs[e]]
            /\ torn' = (torn \ (Under[d] \ left)) \cup {e \in {d} \cup left : Cut(e) # {}}
  BY DEF CutOff
<1>2. PICK bare \in SUBSET {e \in {d} \cup left : Committed(e)},
           cut \in SUBSET {x \in ({d} \cup left) \X Names : x[2] \in fs[x[1]].files} :
         LET Cut(e) == {n \in Names : <<e, n>> \in cut}
             Touched(e) == \/ Cut(e) # {} \/ e \in bare
                           \/ \E c \in Under[d] \ left : fs[c].there /\ IsParent(e, c)
         IN /\ \A e \in left : Above(e) \cap Under[d] \subseteq left
            /\ fs' = [e \in Dirs |->
                 IF e \in {d} \cup left
                 THEN [fs[e] EXCEPT !.files = @ \ Cut(e),
                                    !.meta = IF e \in bare THEN {} ELSE @,
                                    !.age = IF Touched(e) THEN 0 ELSE @]
                 ELSE IF e \in Under[d] THEN Absent ELSE fs[e]]
            /\ torn' = (torn \ (Under[d] \ left)) \cup {e \in {d} \cup left : Cut(e) # {}}
  BY <1>1
<1> DEFINE Cut(e) == {n \in Names : <<e, n>> \in cut}
<1>3. fs \in FS /\ fs[d].there /\ left \subseteq Dirs
  BY <1>1, TreeFacts DEF CutOff, TypeOK, FS
<1>4. ASSUME NEW e \in {d} \cup left
      PROVE  /\ e \in Dirs /\ fs'[e] \in Directory /\ fs[e].there /\ fs'[e].there
             /\ fs'[e].files = fs[e].files \ Cut(e)
             /\ fs'[e].meta = fs[e].meta \/ fs'[e].meta = {}
  <2>1. e \in Dirs /\ fs[e].there
    BY <1>3
  <2>2. fs[e] \in Directory
    BY <1>3, <2>1, ShapeFacts
  <2>3. PICK k \in 0..MinAge, m \in {fs[e].meta, {}} :
           fs'[e] = [fs[e] EXCEPT !.files = @ \ Cut(e), !.meta = m, !.age = k]
    <3>1. 0 \in 0..MinAge /\ fs[e].age \in 0..MinAge
      BY <1>3, <2>1, ShapeFacts, BundleDirsAssumption
    <3> QED
      BY <1>2, <2>1, <3>1
  <2>4. fs'[e] \in Directory /\ fs'[e].files = fs[e].files \ Cut(e) /\ fs'[e].meta = m
    BY <2>2, <2>3 DEF Directory
  <2>5. fs'[e].there = TRUE
    BY <2>4 DEF Directory
  <2> QED
    BY <2>1, <2>3, <2>4, <2>5
<1>5. \A e \in Dirs \ ({d} \cup left) : fs'[e] = IF e \in Under[d] THEN Absent ELSE fs[e]
  BY <1>2
<1>6. fs' \in FS
  <2>1. \A e \in Dirs : fs'[e] \in Directory \cup {Absent}
    BY <1>3, <1>4, <1>5 DEF FS
  <2> QED
    BY <1>2, <2>1 DEF FS
<1>7. Absent.there = FALSE /\ Absent.files = {} /\ Absent.meta = {}
  BY DEF Absent
<1>8. ASSUME NEW e \in Dirs
      PROVE  /\ fs'[e].there => fs[e].there
             /\ fs'[e].meta = fs[e].meta \/ fs'[e].meta = {}
             /\ fs'[e].files \subseteq fs[e].files
             /\ e \notin torn' => \/ fs'[e].meta = {}
                                  \/ fs'[e].files = fs[e].files /\ e \notin torn
  <2>1. CASE e \in {d} \cup left
    <3>1. e \notin torn' => Cut(e) = {} /\ e \notin torn
      BY <1>2, <2>1, TreeFacts
    <3> QED
      BY <1>4, <2>1, <3>1
  <2>2. CASE e \notin {d} \cup left /\ e \in Under[d]
    <3>1. fs'[e] = Absent
      BY <1>5, <2>2
    <3> QED
      BY <1>7, <3>1
  <2>3. CASE e \notin {d} \cup left /\ e \notin Under[d]
    <3>1. fs'[e] = fs[e]
      BY <1>5, <2>3
    <3>2. e \notin torn' => e \notin torn
      BY <1>2, <2>3
    <3> QED
      BY <3>1, <3>2
  <2> QED
    BY <2>1, <2>2, <2>3
<1>9. Closed'
  <2> SUFFICES ASSUME NEW e \in Dirs, NEW a \in Dirs, a \in Above(e), fs'[e].there
               PROVE  fs'[a].there
    BY DEF Closed
  <2>1. fs[e].there /\ fs[a].there
    BY <1>8 DEF Closed
  <2>2. CASE a \in {d} \cup left
    BY <1>4, <2>2
  <2>3. CASE a \notin {d} \cup left /\ a \in Under[d]
    <3>1. e \in Under[d] /\ e # d
      BY <2>3, TreeFacts
    <3>2. e \notin left
      BY <1>2, <2>3
    <3>3. fs'[e] = Absent
      BY <1>5, <3>1, <3>2
    <3> QED
      BY <1>7, <3>3
  <2>4. CASE a \notin {d} \cup left /\ a \notin Under[d]
    BY <1>5, <2>1, <2>4
  <2> QED
    BY <2>2, <2>3, <2>4
<1>10. torn' \subseteq Dirs
  BY <1>2, <1>3 DEF TypeOK
<1> QED
  BY <1>5, <1>6, <1>8, <1>9, <1>10, TreeFacts DEF Tree

\* Removing trees, by whomever: the uploads in them are hurt, the rest is as it was.
LEMMA RemovalKeeps ==
    ASSUME WholeInv, NEW D \in SUBSET Dirs, NEW W \in SUBSET Uploads,
           fs' = Remove(fs, D),
           upload' = [u \in Uploads |-> IF u \in W THEN Idle ELSE upload[u]],
           Removed(D, W)
    PROVE  WholeInv'
<1>1. fs \in FS /\ TypeOK /\ Closed /\ Safe /\ CommittedWhole
  BY DEF WholeInv, TypeOK, FS
<1>2. /\ fs' \in FS
      /\ \A e \in Dirs : e \in Trees(D) => fs'[e] = Absent
      /\ \A e \in Dirs : e \notin Trees(D) =>
           fs'[e].files = fs[e].files /\ fs'[e].meta = fs[e].meta /\ fs'[e].there = fs[e].there
  BY <1>1, RemoveFacts DEF Closed
<1>3. Absent.there = FALSE /\ Absent.files = {} /\ Absent.meta = {}
  BY DEF Absent
<1>4. /\ hurt' = (hurt \cup HurtBy(D, W)) \ W /\ torn' = torn \ Trees(D)
      /\ crossed' = (crossed \/ HurtBy(D, W) # {})
  BY DEF Removed, Hurts
<1>5. Running' = Running \ W
  BY <1>1 DEF Running, TypeOK
<1>6. TypeOK'
  <2>1. hurt' \subseteq Running' /\ torn' \subseteq Dirs
    BY <1>1, <1>4, <1>5 DEF TypeOK, HurtBy
  <2>2. crossed' \in BOOLEAN
    BY <1>4
  <2>3. upload' \in [Uploads -> Writer \cup {Idle}]
    BY <1>1 DEF TypeOK
  <2> QED
    BY <1>2, <2>1, <2>2, <2>3 DEF TypeOK, FS
<1>7. Closed'
  <2> SUFFICES ASSUME NEW d \in Dirs, NEW a \in Dirs, a \in Above(d), fs'[d].there PROVE fs'[a].there
    BY DEF Closed
  <2>1. d \notin Trees(D) /\ fs[d].there
    BY <1>2, <1>3
  <2>2. a \notin Trees(D)
    BY <2>1, TreesClosed
  <2> QED
    BY <1>1, <1>2, <2>1, <2>2 DEF Closed
<1>8. Safe'
  <2> SUFFICES ASSUME NEW u \in (Running \ hurt)'
               PROVE  fs'[upload'[u].dir].there /\ upload'[u].written \subseteq fs'[upload'[u].dir].files
    BY DEF Safe
  <2>1. u \in Running \ hurt /\ u \notin W /\ upload'[u] = upload[u] /\ u \in Uploads /\ upload[u] # Idle
    BY <1>4, <1>5 DEF Running
  <2>2. upload[u].dir \in Dirs
    BY <1>1, <2>1, WriterFacts
  <2>3. upload[u].dir \notin Trees(D)
    BY <1>4, <2>1 DEF HurtBy
  <2> QED
    BY <1>1, <1>2, <2>1, <2>2, <2>3 DEF Safe
<1>9. CommittedWhole'
  BY <1>1, <1>2, <1>3, <1>4 DEF CommittedWhole
<1> QED
  BY <1>6, <1>7, <1>8, <1>9 DEF WholeInv

\* What a cut-off removal leaves committed and does not call torn is whole.
LEMMA CutOffWhole ==
    ASSUME WholeInv, NEW d \in Dirs, CutOff(d)
    PROVE  CommittedWhole'
<1> SUFFICES ASSUME NEW e \in Dirs, e \notin torn', fs'[e].meta # {}
             PROVE  fs'[e].meta \subseteq fs'[e].files
  BY DEF CommittedWhole
<1>1. fs'[e].files = fs[e].files /\ e \notin torn /\ fs'[e].meta = fs[e].meta
  BY CutOffFacts DEF WholeInv
<1> QED
  BY <1>1 DEF WholeInv, CommittedWhole

\* A removal that fails counts every upload in its tree as hurt.
LEMMA CutOffKeeps ==
    ASSUME WholeInv, NEW d \in Dirs, NEW W \in SUBSET Uploads, CutOff(d),
           upload' = [u \in Uploads |-> IF u \in W THEN Idle ELSE upload[u]],
           Hurts({d}, W)
    PROVE  WholeInv'
<1>1. TypeOK /\ Closed /\ Safe
  BY DEF WholeInv
<1>2. /\ fs' \in FS /\ Closed' /\ torn' \subseteq Dirs
      /\ \A e \in Dirs \ Tree(d) : fs'[e] = fs[e]
  BY <1>1, CutOffFacts
<1>3. /\ hurt' = (hurt \cup HurtBy({d}, W)) \ W
      /\ crossed' = (crossed \/ HurtBy({d}, W) # {})
  BY DEF Hurts
<1>4. Running' = Running \ W
  BY <1>1 DEF Running, TypeOK
<1>5. TypeOK'
  <2>1. hurt' \subseteq Running'
    BY <1>1, <1>3, <1>4 DEF TypeOK, HurtBy
  <2>2. crossed' \in BOOLEAN
    BY <1>3
  <2>3. upload' \in [Uploads -> Writer \cup {Idle}]
    BY <1>1 DEF TypeOK
  <2> QED
    BY <1>2, <2>1, <2>2, <2>3 DEF TypeOK, FS
<1>6. Safe'
  <2> SUFFICES ASSUME NEW u \in (Running \ hurt)'
               PROVE  fs'[upload'[u].dir].there /\ upload'[u].written \subseteq fs'[upload'[u].dir].files
    BY DEF Safe
  <2>1. u \in Running \ hurt /\ u \notin W /\ upload'[u] = upload[u] /\ u \in Uploads /\ upload[u] # Idle
    BY <1>3, <1>4 DEF Running
  <2>2. upload[u].dir \in Dirs
    BY <1>1, <2>1, WriterFacts
  <2>3. upload[u].dir \notin Tree(d)
    BY <1>3, <2>1, TreesOne DEF HurtBy
  <2> QED
    BY <1>1, <1>2, <2>1, <2>2, <2>3 DEF Safe
<1> QED
  BY <1>2, <1>5, <1>6, CutOffWhole DEF WholeInv

\* Opening a bundle directory makes it and those above it.
LEMMA OpenKeeps ==
    ASSUME WholeInv, NEW u \in Uploads, NEW d \in Dirs, NEW m \in Manifest, Open(u, d, m)
    PROVE  WholeInv'
<1>1. fs \in FS /\ TypeOK /\ Closed /\ Safe /\ CommittedWhole
  BY DEF WholeInv, TypeOK, FS
<1>2. /\ fs' \in FS
      /\ \A e \in Dirs : /\ fs'[e].files = fs[e].files /\ fs'[e].meta = fs[e].meta
                         /\ fs'[e].there = (fs[e].there \/ e = d \/ e \in Above(d))
  BY <1>1, MakeDirFacts DEF Open
<1>3. /\ upload' = [upload EXCEPT ![u] = [dir |-> d, manifest |-> m, written |-> {}]]
      /\ upload[u] = Idle /\ UNCHANGED <<hurt, torn>> /\ crossed' = (crossed \/ Crosses(d))
  BY DEF Open
<1>4. Running' = Running \cup {u} /\ u \notin Running
  BY <1>1, <1>3, BundleDirsAssumption DEF Running, TypeOK, Idle
<1>5. TypeOK'
  <2>1. upload' \in [Uploads -> Writer \cup {Idle}]
    BY <1>1, <1>3 DEF TypeOK, Writer
  <2>2. crossed' \in BOOLEAN
    BY <1>3
  <2> QED
    BY <1>1, <1>2, <1>3, <1>4, <2>1, <2>2 DEF TypeOK, FS
<1>6. Closed'
  BY <1>1, <1>2, TreeFacts DEF Closed
<1>7. Safe'
  <2> SUFFICES ASSUME NEW v \in (Running \ hurt)'
               PROVE  fs'[upload'[v].dir].there /\ upload'[v].written \subseteq fs'[upload'[v].dir].files
    BY DEF Safe
  <2>1. CASE v = u
    BY <1>1, <1>2, <1>3, <2>1 DEF TypeOK
  <2>2. CASE v # u
    <3>1. v \in Running \ hurt /\ v \in Uploads /\ upload'[v] = upload[v] /\ upload[v] # Idle
      BY <1>1, <1>3, <1>4, <2>2 DEF Running, TypeOK
    <3>2. upload[v].dir \in Dirs
      BY <1>1, <3>1, WriterFacts
    <3> QED
      BY <1>1, <1>2, <3>1, <3>2 DEF Safe
  <2> QED
    BY <2>1, <2>2
<1>8. CommittedWhole'
  BY <1>1, <1>2, <1>3 DEF CommittedWhole
<1> QED
  BY <1>5, <1>6, <1>7, <1>8 DEF WholeInv

\* Writing a file only adds.
LEMMA WriteKeeps ==
    ASSUME WholeInv, NEW u \in Uploads, NEW n \in Names, Write(u, n)
    PROVE  WholeInv'
<1> DEFINE d == upload[u].dir
<1>1. fs \in FS /\ TypeOK /\ Closed /\ Safe /\ CommittedWhole
  BY DEF WholeInv, TypeOK, FS
<1>2. upload[u] # Idle /\ upload[u] \in Writer /\ d \in Dirs /\ upload[u].written \in SUBSET Names
  BY <1>1, WriterFacts DEF Write
<1>3. /\ fs' \in FS
      /\ fs'[d].files = fs[d].files \cup {n}
      /\ \A e \in Dirs : /\ e # d => fs'[e].files = fs[e].files
                         /\ fs'[e].meta = fs[e].meta
                         /\ fs'[e].there = (fs[e].there \/ e = d \/ e \in Above(d))
  BY <1>1, <1>2, AddFileFacts DEF Write
<1>4. /\ upload' = [upload EXCEPT ![u] = [upload[u] EXCEPT !.written = @ \cup {n}]]
      /\ UNCHANGED <<hurt, torn, crossed>>
  BY <1>1 DEF Write, TypeOK
<1>5. upload'[u] \in Writer /\ upload'[u].dir = d /\ upload'[u].written = upload[u].written \cup {n}
  BY <1>1, <1>2, <1>4 DEF Writer, TypeOK
<1>6. \A v \in Uploads \ {u} : upload'[v] = upload[v]
  BY <1>1, <1>4 DEF TypeOK
<1>7. Running' = Running /\ u \in Running
  <2>1. upload'[u] # Idle
    BY <1>2, <1>5, BundleDirsAssumption DEF Idle
  <2> QED
    BY <1>2, <1>6, <2>1 DEF Running
<1>8. TypeOK'
  BY <1>1, <1>3, <1>4, <1>5, <1>6, <1>7 DEF TypeOK, FS
<1>9. Closed'
  <2> SUFFICES ASSUME NEW e \in Dirs, NEW a \in Dirs, a \in Above(e), fs'[e].there PROVE fs'[a].there
    BY DEF Closed
  <2>1. CASE fs[e].there
    BY <1>1, <1>3, <2>1 DEF Closed
  <2>2. CASE e = d \/ e \in Above(d)
    <3>1. a \in Above(d)
      BY <1>2, <2>2, TreeFacts
    <3> QED
      BY <1>3, <3>1
  <2> QED
    BY <1>3, <2>1, <2>2
<1>10. Safe'
  <2> SUFFICES ASSUME NEW v \in Running \ hurt
               PROVE  fs'[upload'[v].dir].there /\ upload'[v].written \subseteq fs'[upload'[v].dir].files
    BY <1>4, <1>7 DEF Safe
  <2>1. upload[v].written \subseteq fs[upload[v].dir].files /\ fs[upload[v].dir].there
    BY <1>1 DEF Safe
  <2>2. CASE v = u
    BY <1>2, <1>3, <1>5, <2>1, <2>2
  <2>3. CASE v # u
    <3>1. v \in Uploads /\ upload[v] # Idle /\ upload'[v] = upload[v]
      BY <1>6, <2>3 DEF Running
    <3>2. upload[v].dir \in Dirs
      BY <1>1, <3>1, WriterFacts
    <3>3. fs[upload[v].dir].files \subseteq fs'[upload[v].dir].files /\ fs'[upload[v].dir].there
      BY <1>3, <2>1, <3>2
    <3> QED
      BY <2>1, <3>1, <3>3
  <2> QED
    BY <2>2, <2>3
<1>11. CommittedWhole'
  <2> SUFFICES ASSUME NEW e \in Dirs \ torn PROVE fs'[e].meta \subseteq fs'[e].files
    BY <1>4 DEF CommittedWhole
  <2>1. fs[e].meta \subseteq fs[e].files
    BY <1>1 DEF CommittedWhole
  <2> QED
    BY <1>3, <2>1
<1> QED
  BY <1>8, <1>9, <1>10, <1>11 DEF WholeInv

\* A commit of an upload that was not hurt finds every file it wrote.
LEMMA CommitKeeps ==
    ASSUME WholeInv, NEW u \in Uploads, Commit(u)
    PROVE  WholeInv'
<1> DEFINE d == upload[u].dir
<1>1. fs \in FS /\ TypeOK /\ Closed /\ Safe /\ CommittedWhole
  BY DEF WholeInv, TypeOK, FS
<1>2. upload[u] # Idle /\ d \in Dirs /\ upload[u].manifest \in SUBSET Names /\ fs[d].there
  BY <1>1, WriterFacts DEF Commit
<1>3. /\ fs' \in FS /\ fs'[d].meta = upload[u].manifest /\ fs'[d].files = fs[d].files /\ fs'[d].there
      /\ \A e \in Dirs \ {d} : fs'[e] = fs[e]
  BY <1>1, <1>2, AddMetaFacts DEF Commit
<1>4. /\ upload' = [upload EXCEPT ![u] = Idle]
      /\ torn' = IF u \in hurt THEN torn \cup {d} ELSE torn \ {d}
      /\ hurt' = hurt \ {u} /\ crossed' = crossed
      /\ upload[u].written = upload[u].manifest
  BY DEF Commit, Done
<1>5. Running' = Running \ {u} /\ u \in Running /\ \A v \in Uploads \ {u} : upload'[v] = upload[v]
  BY <1>1, <1>2, <1>4 DEF Running, TypeOK
<1>6. TypeOK'
  BY <1>1, <1>2, <1>3, <1>4, <1>5 DEF TypeOK, FS
<1>7. Closed'
  BY <1>1, <1>2, <1>3 DEF Closed
<1>8. Safe'
  <2> SUFFICES ASSUME NEW v \in Running \ hurt, v # u
               PROVE  fs'[upload'[v].dir].there /\ upload'[v].written \subseteq fs'[upload'[v].dir].files
    BY <1>4, <1>5 DEF Safe
  <2>1. v \in Uploads /\ upload[v] # Idle /\ upload'[v] = upload[v]
    BY <1>5 DEF Running
  <2>2. upload[v].dir \in Dirs
    BY <1>1, <2>1, WriterFacts
  <2> QED
    BY <1>1, <1>2, <1>3, <2>1, <2>2 DEF Safe
<1>9. CommittedWhole'
  <2>1. u \notin hurt => fs'[d].meta \subseteq fs'[d].files
    BY <1>1, <1>3, <1>4, <1>5 DEF Safe
  <2> QED
    BY <1>1, <1>3, <1>4, <2>1 DEF CommittedWhole
<1> QED
  BY <1>6, <1>7, <1>8, <1>9 DEF WholeInv

\* An inline write leaves a bundle that is whole, and touches no upload.
LEMMA PlaceKeeps ==
    ASSUME WholeInv, NEW d \in Dirs, NEW m \in Manifest, ~fs[d].there,
           fs' = WholeBundle(fs, d, m), UNCHANGED <<upload, hurt>>,
           torn' \subseteq torn, torn \ torn' \subseteq {d}, crossed' \in BOOLEAN
    PROVE  WholeInv'
<1>1. fs \in FS /\ TypeOK /\ Closed /\ Safe /\ CommittedWhole /\ m \in SUBSET Names
  BY DEF WholeInv, TypeOK, FS, Manifest
<1>2. /\ fs' \in FS /\ fs'[d].meta = m /\ fs'[d].files = m
      /\ \A e \in Dirs : fs'[e].there = (fs[e].there \/ e = d \/ e \in Above(d))
      /\ \A e \in Dirs \ {d} : fs'[e].meta = fs[e].meta /\ fs'[e].files = fs[e].files
  BY <1>1, WholeFacts
<1>3. Running' = Running
  BY DEF Running
<1>4. TypeOK'
  BY <1>1, <1>2, <1>3 DEF TypeOK, FS
<1>5. Closed'
  BY <1>1, <1>2, TreeFacts DEF Closed
<1>6. Safe'
  <2> SUFFICES ASSUME NEW v \in Running \ hurt
               PROVE  fs'[upload[v].dir].there /\ upload[v].written \subseteq fs'[upload[v].dir].files
    BY <1>3 DEF Safe
  <2>1. v \in Uploads /\ upload[v] # Idle
    BY DEF Running
  <2>2. upload[v].dir \in Dirs
    BY <1>1, <2>1, WriterFacts
  <2>3. fs[upload[v].dir].there /\ upload[v].written \subseteq fs[upload[v].dir].files
    BY <1>1 DEF Safe
  <2> QED
    BY <1>2, <2>2, <2>3
<1>7. CommittedWhole'
  BY <1>1, <1>2 DEF CommittedWhole
<1> QED
  BY <1>4, <1>5, <1>6, <1>7 DEF WholeInv

\* Overwriting: the tree is removed, the bundle is placed unless it conflicts.
LEMMA RemoveAndSendFacts ==
    ASSUME TypeOK, Closed, NEW d \in Dirs, NEW m \in Manifest, RemoveAndSend(d, m)
    PROVE  /\ fs' \in FS
           /\ fs'[d].meta = fs'[d].files
           /\ \A e \in Under[d] : fs'[e].there = FALSE /\ fs'[e].meta = {} /\ fs'[e].files = {}
           /\ \A e \in Dirs \ Tree(d) :
                /\ fs'[e].files = fs[e].files /\ fs'[e].meta = fs[e].meta
                /\ fs[e].there => fs'[e].there
                /\ fs'[e].there => fs[e].there \/ e \in Above(d)
           /\ Closed'
           /\ \/ \A e \in Dirs : /\ fs'[e].there => fs[e].there
                                 /\ fs'[e].files # {} => fs[e].files # {}
                                 /\ fs'[e].meta # {} => fs[e].meta # {}
              \/ \A a \in Above(d) : fs[a].meta = {}
<1> DEFINE g == Remove(fs, {d})
           h == WholeBundle(g, d, m)
<1>1. fs \in FS /\ m \in SUBSET Names /\ {d} \in SUBSET Dirs /\ Trees({d}) = Tree(d)
  BY TreesOne DEF TypeOK, FS, Manifest
<1>2. /\ g \in FS
      /\ \A e \in Dirs : e \in Tree(d) => g[e] = Absent
      /\ \A e \in Dirs : e \notin Tree(d) =>
           g[e].files = fs[e].files /\ g[e].meta = fs[e].meta /\ g[e].there = fs[e].there
  <2>1. /\ g \in FS
        /\ \A e \in Dirs : e \in Trees({d}) => g[e] = Absent
        /\ \A e \in Dirs : e \notin Trees({d}) =>
             g[e].files = fs[e].files /\ g[e].meta = fs[e].meta /\ g[e].there = fs[e].there
    BY <1>1, RemoveFacts DEF Closed
  <2> QED
    BY <1>1, <2>1
<1>3. Absent.there = FALSE /\ Absent.files = {} /\ Absent.meta = {}
  BY DEF Absent
<1>4. \A e, a \in Dirs : a \in Above(e) /\ g[e].there => g[a].there
  <2> SUFFICES ASSUME NEW e \in Dirs, NEW a \in Dirs, a \in Above(e), g[e].there PROVE g[a].there
    OBVIOUS
  <2>1. e \notin Tree(d) /\ fs[e].there
    BY <1>2, <1>3
  <2>2. a \notin Tree(d)
    BY <2>1, TreeFacts DEF Tree
  <2> QED
    BY <1>2, <2>1, <2>2 DEF Closed
<1>5. CASE fs' = g
  <2>1. Closed'
    BY <1>4, <1>5 DEF Closed
  <2>2. \A e \in Dirs : /\ fs'[e].there => fs[e].there
                        /\ fs'[e].files # {} => fs[e].files # {}
                        /\ fs'[e].meta # {} => fs[e].meta # {}
    BY <1>2, <1>3, <1>5
  <2> QED
    BY <1>2, <1>3, <1>5, <2>1, <2>2, TreeFacts DEF Tree
<1>6. CASE fs' = h /\ ~Conflict(g, d)
  <2>1. /\ fs' \in FS /\ fs'[d].meta = m /\ fs'[d].files = m
        /\ \A e \in Dirs : fs'[e].there = (g[e].there \/ e = d \/ e \in Above(d))
        /\ \A e \in Dirs \ {d} : fs'[e].meta = g[e].meta /\ fs'[e].files = g[e].files
    <3>1. /\ h \in FS /\ h[d].meta = m /\ h[d].files = m
          /\ \A e \in Dirs : h[e].there = (g[e].there \/ e = d \/ e \in Above(d))
          /\ \A e \in Dirs \ {d} : h[e].meta = g[e].meta /\ h[e].files = g[e].files
      <4> HIDE DEF g
      <4> QED
        BY <1>1, <1>2, WholeFacts
    <3> QED
      BY <1>6, <3>1
  <2>2. ASSUME NEW e \in Under[d]
        PROVE  fs'[e].there = FALSE /\ fs'[e].meta = {} /\ fs'[e].files = {}
    <3>1. e \in Dirs /\ e # d /\ e \in Tree(d) /\ e \notin Above(d)
      BY TreeFacts DEF Tree
    <3>2. g[e].there = FALSE /\ g[e].files = {} /\ g[e].meta = {}
      BY <1>2, <1>3, <3>1
    <3> QED
      BY <2>1, <3>1, <3>2
  <2>3. Closed'
    <3> SUFFICES ASSUME NEW e \in Dirs, NEW a \in Dirs, a \in Above(e), fs'[e].there
                 PROVE  fs'[a].there
      BY DEF Closed
    <3>1. g[e].there \/ e = d \/ e \in Above(d)
      BY <2>1
    <3>2. g[a].there \/ a \in Above(d)
      BY <1>4, <3>1, TreeFacts
    <3> QED
      BY <2>1, <3>2
  <2>4. \A e \in Dirs \ Tree(d) :
           /\ fs'[e].files = fs[e].files /\ fs'[e].meta = fs[e].meta
           /\ fs[e].there => fs'[e].there
           /\ fs'[e].there => fs[e].there \/ e \in Above(d)
    BY <1>2, <2>1 DEF Tree
  <2>5. ASSUME NEW a \in Above(d) PROVE fs[a].meta = {}
    <3>1. a \in Dirs /\ a \notin Tree(d)
      BY TreeFacts DEF Tree, Above
    <3>2. g[a].meta = fs[a].meta /\ ~LooksLikeBundle(g, a)
      BY <1>2, <1>6, <3>1 DEF Conflict
    <3> QED
      BY <1>2, <3>1, <3>2, ShapeFacts DEF LooksLikeBundle
  <2> QED
    BY <2>1, <2>2, <2>3, <2>4, <2>5
<1> QED
  BY <1>5, <1>6 DEF RemoveAndSend

\* The invariant of the bundles' files.
LEMMA WholeStep == WholeInv /\ [Next]_vars => WholeInv'
<1> SUFFICES ASSUME WholeInv, [Next]_vars PROVE WholeInv'
  OBVIOUS
<1>1. fs \in FS /\ TypeOK /\ Closed /\ Safe /\ CommittedWhole
  BY DEF WholeInv, TypeOK, FS
<1>2. CASE Sweep
  <2> DEFINE whole == {d \in Due : HasFiles(fs, d)}
  <2>1. /\ fs' \in FS /\ whole \in SUBSET Dirs
        /\ \A e \in Trees(whole) : fs'[e] = Absent
        /\ \A e \in Dirs \ Trees(whole) :
             /\ fs'[e].there = fs[e].there /\ fs'[e].meta = fs[e].meta
             /\ fs'[e].files \subseteq fs[e].files
             /\ e \notin Due => fs'[e].files = fs[e].files
        /\ \A e \in Due : fs[e].meta = {}
    BY <1>1, <1>2, SweepFacts
  <2>2. /\ hurt' = hurt \cup HurtBy(whole, {}) \cup {u \in Running : upload[u].dir \in Due}
        /\ torn' = torn \ Trees(whole) /\ crossed' = (crossed \/ hurt' # {}) /\ upload' = upload
    BY <1>2 DEF Sweep
  <2>3. Absent.there = FALSE /\ Absent.meta = {}
    BY DEF Absent
  <2>4. Running' = Running
    BY <2>2 DEF Running
  <2>5. TypeOK'
    <3>1. hurt' \subseteq Running' /\ torn' \subseteq Dirs /\ crossed' \in BOOLEAN
      BY <1>1, <2>2, <2>4 DEF TypeOK, HurtBy
    <3> QED
      BY <1>1, <2>1, <2>2, <3>1 DEF TypeOK, FS
  <2>6. Closed'
    <3> SUFFICES ASSUME NEW d \in Dirs, NEW a \in Dirs, a \in Above(d), fs'[d].there PROVE fs'[a].there
      BY DEF Closed
    <3>1. d \notin Trees(whole) /\ fs[d].there
      BY <2>1, <2>3
    <3>2. a \notin Trees(whole)
      BY <2>1, <3>1, TreesClosed
    <3> QED
      BY <1>1, <2>1, <3>1, <3>2 DEF Closed
  <2>7. Safe'
    <3> SUFFICES ASSUME NEW v \in Running, v \notin hurt'
                 PROVE  fs'[upload[v].dir].there /\ upload[v].written \subseteq fs'[upload[v].dir].files
      BY <2>2, <2>4 DEF Safe
    <3>1. v \in Uploads /\ upload[v] # Idle /\ v \in Running \ hurt
      BY <2>2 DEF Running
    <3>2. upload[v].dir \in Dirs
      BY <1>1, <3>1, WriterFacts
    <3>3. upload[v].dir \notin Trees(whole) /\ upload[v].dir \notin Due
      BY <2>2, <3>1 DEF HurtBy
    <3> QED
      BY <1>1, <2>1, <3>1, <3>2, <3>3 DEF Safe
  <2>8. CommittedWhole'
    <3> SUFFICES ASSUME NEW e \in Dirs, e \notin torn', fs'[e].meta # {}
                 PROVE  fs'[e].meta \subseteq fs'[e].files
      BY DEF CommittedWhole
    <3>1. e \notin Trees(whole) /\ fs'[e].meta = fs[e].meta
      BY <2>1, <2>3
    <3>2. e \notin Due /\ e \notin torn
      BY <2>1, <2>2, <3>1
    <3> QED
      BY <1>1, <2>1, <3>1, <3>2 DEF CommittedWhole
  <2> QED
    BY <2>5, <2>6, <2>7, <2>8 DEF WholeInv
<1>3. CASE Tick
  <2>1. fs' \in FS /\ \A e \in Dirs : /\ fs'[e].there = fs[e].there /\ fs'[e].files = fs[e].files
                                      /\ fs'[e].meta = fs[e].meta
    <3> SUFFICES ASSUME NEW e \in Dirs
                 PROVE  /\ fs'[e] \in Directory \cup {Absent}
                        /\ fs'[e].there = fs[e].there /\ fs'[e].files = fs[e].files
                        /\ fs'[e].meta = fs[e].meta
      BY <1>3 DEF Tick, FS
    <3>1. CASE fs[e].there /\ fs[e].age < MinAge
      <4>1. fs[e] \in Directory /\ fs'[e] = [fs[e] EXCEPT !.age = @ + 1]
        BY <1>1, <1>3, <3>1, ShapeFacts DEF Tick
      <4>2. fs[e].age + 1 \in 0..MinAge
        <5>1. fs[e].age \in 0..MinAge /\ MinAge \in Nat
          BY <1>1, ShapeFacts, BundleDirsAssumption
        <5> QED
          BY <3>1, <5>1
      <4>3. fs'[e] \in Directory /\ fs'[e].files = fs[e].files /\ fs'[e].meta = fs[e].meta
        BY <4>1, <4>2 DEF Directory
      <4>4. fs'[e].there = TRUE /\ fs[e].there = TRUE
        BY <4>1, <4>3 DEF Directory
      <4> QED
        BY <4>3, <4>4
    <3>2. CASE ~(fs[e].there /\ fs[e].age < MinAge)
      <4>1. fs'[e] = fs[e]
        BY <1>3, <3>2 DEF Tick
      <4> QED
        BY <1>1, <4>1 DEF FS
    <3> QED
      BY <3>1, <3>2
  <2>2. UNCHANGED <<upload, hurt, torn, crossed, Running>>
    BY <1>3 DEF Tick, Running
  <2>3. Safe'
    <3> SUFFICES ASSUME NEW v \in Running \ hurt
                 PROVE  fs'[upload[v].dir].there /\ upload[v].written \subseteq fs'[upload[v].dir].files
      BY <2>2 DEF Safe
    <3>1. upload[v].dir \in Dirs
      BY <1>1, WriterFacts DEF Running
    <3> QED
      BY <1>1, <2>1, <3>1 DEF Safe
  <2> QED
    BY <1>1, <2>1, <2>2, <2>3 DEF WholeInv, TypeOK, FS, Closed, CommittedWhole
<1>4. ASSUME Killed, fs' \in FS, Closed', torn' \subseteq Dirs, CommittedWhole' PROVE WholeInv'
  <2>1. Running' = {} /\ upload' \in [Uploads -> Writer \cup {Idle}] /\ hurt' = {} /\ crossed' \in BOOLEAN
    BY <1>1, <1>4 DEF Killed, Running, TypeOK
  <2> QED
    BY <1>4, <2>1 DEF WholeInv, TypeOK, FS, Safe
<1>5. CASE Crash
  BY <1>1, <1>4, <1>5 DEF Crash, Closed, CommittedWhole, TypeOK
<1>6. ASSUME NEW d \in Dirs, CrashInRemove(d) PROVE WholeInv'
  BY <1>1, <1>4, <1>6, CutOffFacts, CutOffWhole DEF CrashInRemove
<1>7. ASSUME NEW d \in Dirs, RemoveFails(d) PROVE WholeInv'
  <2>1. upload' = [v \in Uploads |-> IF v \in {} THEN Idle ELSE upload[v]]
    BY <1>1, <1>7 DEF RemoveFails, TypeOK
  <2> QED
    BY <1>7, <2>1, CutOffKeeps DEF RemoveFails
<1>8. ASSUME NEW u \in Uploads, AbortFails(u) PROVE WholeInv'
  <2>1. upload' = [v \in Uploads |-> IF v \in {u} THEN Idle ELSE upload[v]]
    BY <1>1, <1>8 DEF AbortFails, Done, TypeOK
  <2>2. upload[u].dir \in Dirs
    BY <1>1, <1>8, WriterFacts DEF AbortFails
  <2> QED
    BY <1>8, <2>1, <2>2, CutOffKeeps DEF AbortFails
<1>9. ASSUME NEW u \in Uploads, Abort(u) PROVE WholeInv'
  <2>1. upload' = [v \in Uploads |-> IF v \in {u} THEN Idle ELSE upload[v]]
    BY <1>1, <1>9 DEF Abort, Done, TypeOK
  <2>2. {upload[u].dir} \in SUBSET Dirs
    BY <1>1, <1>9, WriterFacts DEF Abort
  <2> QED
    BY <1>9, <2>1, <2>2, RemovalKeeps DEF Abort
<1>10. ASSUME NEW d \in Dirs, Delete(d) PROVE WholeInv'
  <2>1. upload' = [v \in Uploads |-> IF v \in {} THEN Idle ELSE upload[v]]
    BY <1>1, <1>10 DEF Delete, TypeOK
  <2> QED
    BY <1>10, <2>1, RemovalKeeps DEF Delete
<1>11. ASSUME NEW d \in Dirs, NEW m \in Manifest, Send(d, m) PROVE WholeInv'
  <2>1. ~fs[d].there /\ crossed' \in BOOLEAN
    BY <1>11 DEF Send, Conflict
  <2> QED
    BY <1>11, <2>1, PlaceKeeps DEF Send
<1>12. ASSUME NEW d \in Dirs, NEW m \in Manifest, RemoveAndSend(d, m) PROVE WholeInv'
  <2>1. /\ fs' \in FS
        /\ fs'[d].meta = fs'[d].files
        /\ \A e \in Under[d] : fs'[e].there = FALSE /\ fs'[e].meta = {} /\ fs'[e].files = {}
        /\ \A e \in Dirs \ Tree(d) :
             /\ fs'[e].files = fs[e].files /\ fs'[e].meta = fs[e].meta
             /\ fs[e].there => fs'[e].there
        /\ Closed'
    BY <1>1, <1>12, RemoveAndSendFacts
  <2>2. /\ hurt' = hurt \cup HurtBy({d}, {}) /\ torn' = torn \ Tree(d) /\ upload' = upload
        /\ crossed' \in BOOLEAN
    BY <1>12 DEF RemoveAndSend
  <2>3. Running' = Running
    BY <2>2 DEF Running
  <2>4. TypeOK'
    BY <1>1, <2>1, <2>2, <2>3 DEF TypeOK, FS, HurtBy
  <2>5. Safe'
    <3> SUFFICES ASSUME NEW v \in Running, v \notin hurt'
                 PROVE  fs'[upload[v].dir].there /\ upload[v].written \subseteq fs'[upload[v].dir].files
      BY <2>2, <2>3 DEF Safe
    <3>1. upload[v].dir \in Dirs
      BY <1>1, WriterFacts DEF Running
    <3>2. upload[v].dir \notin Tree(d) /\ v \notin hurt
      BY <2>2, TreesOne DEF HurtBy
    <3> QED
      BY <1>1, <2>1, <3>1, <3>2 DEF Safe
  <2>6. CommittedWhole'
    <3> SUFFICES ASSUME NEW e \in Dirs, e \notin torn' PROVE fs'[e].meta \subseteq fs'[e].files
      BY DEF CommittedWhole
    <3>1. CASE e \in Tree(d)
      BY <2>1, <3>1 DEF Tree
    <3>2. CASE e \notin Tree(d)
      BY <1>1, <2>1, <2>2, <3>2 DEF CommittedWhole
    <3> QED
      BY <3>1, <3>2
  <2> QED
    BY <2>1, <2>4, <2>5, <2>6 DEF WholeInv
<1>13. ASSUME NEW u \in Uploads, UploadStep(u) PROVE WholeInv'
  BY <1>9, <1>13, <1>8, OpenKeeps, WriteKeeps, CommitKeeps DEF UploadStep
<1>14. CASE UNCHANGED vars
  BY <1>1, <1>14 DEF vars, WholeInv, TypeOK, Closed, Safe, CommittedWhole, Running
<1> QED
  BY <1>2, <1>3, <1>5, <1>6, <1>10, <1>11, <1>12, <1>13, <1>14, <1>7 DEF Next, Overwrite, Replace

\* The invariant holds from the start, when there is no directory.
LEMMA WholeInvariant == Spec => []WholeInv
<1>1. Init => WholeInv
  <2>1. Absent.there = FALSE /\ Absent.meta = {}
    BY DEF Absent
  <2> QED
    BY <2>1 DEF Init, WholeInv, TypeOK, Closed, Safe, CommittedWhole, Running
<1> QED
  BY <1>1, WholeStep, PTL DEF Spec

\* Tree, writers and history keep their shape.
THEOREM TypeCorrect == Spec => []TypeOK
<1>1. WholeInv => TypeOK
  BY DEF WholeInv
<1> QED
  BY <1>1, WholeInvariant, PTL

\* Whoever sees a bundle's meta.json finds all its files, unless the upload that
\* committed it lost its directory or its removal was cut off.
THEOREM BundlesWhole == Spec => []CommittedWhole
<1>1. WholeInv => CommittedWhole
  BY DEF WholeInv
<1> QED
  BY <1>1, WholeInvariant, PTL

-----------------------------------------------------------------------------
(* Bundles are visible and stay.  As long as nobody got in the way of an     *)
(* upload, nothing lies below a directory that has files (NoNesting) or that *)
(* an upload is about to fill, and every upload has its directory to itself  *)
(* (Alone).                                                                  *)

NoNesting == \A d, a \in Dirs :
    a \in Above(d) /\ (fs[a].files # {} \/ fs[a].meta # {}) => ~fs[d].there

Alone == \A u \in Running :
    /\ fs[upload[u].dir].meta = {}
    /\ \A e \in Under[upload[u].dir] : ~fs[e].there
    /\ \A v \in Running \ {u} : upload[v].dir # upload[u].dir

Untangled == ~crossed => hurt = {} /\ NoNesting /\ Alone

\* A step that adds no directory, no first file, no meta.json and no upload.
LEMMA ShrinkKeeps ==
    ASSUME WholeInv, NoNesting, Alone,
           \A e \in Dirs : /\ fs'[e].there => fs[e].there
                           /\ fs'[e].files # {} => fs[e].files # {}
                           /\ fs'[e].meta # {} => fs[e].meta # {},
           \A u \in Running' : u \in Running /\ upload'[u] = upload[u]
    PROVE  NoNesting' /\ Alone'
<1>1. \A u \in Running : upload[u].dir \in Dirs /\ Under[upload[u].dir] \subseteq Dirs
  BY WriterFacts, TreeFacts DEF WholeInv, Running
<1>2. NoNesting'
  BY DEF NoNesting
<1>3. Alone'
  BY <1>1 DEF Alone
<1> QED
  BY <1>2, <1>3

\* A cut-off removal is such a step.
LEMMA CutOffShrinks ==
    ASSUME TypeOK, Closed, NEW d \in Dirs, CutOff(d)
    PROVE  \A e \in Dirs : /\ fs'[e].there => fs[e].there
                           /\ fs'[e].files # {} => fs[e].files # {}
                           /\ fs'[e].meta # {} => fs[e].meta # {}
<1>1. \A e \in Dirs : /\ fs'[e].there => fs[e].there
                      /\ fs'[e].meta = fs[e].meta \/ fs'[e].meta = {}
                      /\ fs'[e].files \subseteq fs[e].files
  BY CutOffFacts
<1> QED
  BY <1>1

\* A bundle is placed at d, away from every upload and every file above it.
LEMMA PlaceUntangled ==
    ASSUME WholeInv, hurt = {}, NoNesting, Alone, NEW d \in Dirs,
           UNCHANGED upload, ~Crosses(d),
           \A u \in Running : upload[u].dir \notin Tree(d),
           \A a \in Above(d) : fs[a].meta = {},
           \A e \in Under[d] : ~fs'[e].there,
           \A e \in Dirs \ Tree(d) : /\ fs'[e].files = fs[e].files /\ fs'[e].meta = fs[e].meta
                                     /\ fs'[e].there => fs[e].there \/ e \in Above(d)
    PROVE  NoNesting' /\ Alone'
<1>1. \A u \in Running : upload[u].dir \in Dirs
  BY WriterFacts DEF WholeInv, Running
<1>2. /\ \A a \in Above(d) : fs[a].files = {}
      /\ \A u \in Running : upload[u].dir \notin Above(d)
  BY DEF Crosses
<1>3. NoNesting'
  <2> SUFFICES ASSUME NEW e \in Dirs, NEW a \in Dirs, a \in Above(e), fs'[e].there
               PROVE  fs'[a].files = {} /\ fs'[a].meta = {}
    BY DEF NoNesting
  <2>1. a \notin Tree(d)
    BY TreeFacts DEF Tree
  <2>2. CASE e \in Tree(d)
    <3>1. a \in Above(d)
      BY <2>2, TreeFacts DEF Tree
    <3> QED
      BY <1>2, <2>1, <3>1
  <2>3. CASE e \notin Tree(d)
    <3>1. fs[e].there \/ e \in Above(d)
      BY <2>3
    <3>2. CASE fs[e].there
      BY <2>1, <3>2 DEF NoNesting
    <3>3. CASE e \in Above(d)
      <4>1. a \in Above(d)
        BY <3>3, TreeFacts
      <4> QED
        BY <1>2, <2>1, <4>1
    <3> QED
      BY <3>1, <3>2, <3>3
  <2> QED
    BY <2>2, <2>3
<1>4. Alone'
  <2> SUFFICES ASSUME NEW u \in Running
               PROVE  /\ fs'[upload[u].dir].meta = {}
                      /\ \A e \in Under[upload[u].dir] : ~fs'[e].there
                      /\ \A v \in Running \ {u} : upload[v].dir # upload[u].dir
    BY DEF Alone, Running
  <2>1. fs'[upload[u].dir].meta = {}
    BY <1>1 DEF Alone
  <2>2. ASSUME NEW e \in Under[upload[u].dir] PROVE ~fs'[e].there
    <3>1. e \in Dirs /\ ~fs[e].there
      BY <1>1, TreeFacts DEF Alone
    <3>2. e \notin Above(d) /\ e # d
      BY <1>1, <1>2, <3>1, TreeFacts
    <3> QED
      BY <3>1, <3>2 DEF Tree
  <2> QED
    BY <2>1, <2>2 DEF Alone
<1> QED
  BY <1>3, <1>4

\* As long as nobody gets in the way, uploads and bundles stay apart.
LEMMA UntangledStep == WholeInv /\ Untangled /\ [Next]_vars => Untangled'
<1> SUFFICES ASSUME WholeInv, Untangled, [Next]_vars, ~crossed'
             PROVE  hurt' = {} /\ NoNesting' /\ Alone'
  BY DEF Untangled
<1>1. fs \in FS /\ TypeOK /\ Closed /\ Safe /\ crossed \in BOOLEAN
  BY DEF WholeInv, TypeOK, FS
<1>2. ~crossed
  BY <1>1 DEF Next, vars, Sweep, Tick, Crash, Killed, UploadStep, Open, Write, Commit, Abort, AbortFails,
            Removed, Hurts, Send, Overwrite, Replace, RemoveAndSend, Delete, RemoveFails, CrashInRemove
<1>3. hurt = {} /\ NoNesting /\ Alone
  BY <1>2 DEF Untangled
<1>4. \A u \in Running : /\ u \in Uploads /\ upload[u] # Idle /\ upload[u].dir \in Dirs
                         /\ fs[upload[u].dir].there
  BY <1>1, <1>3, WriterFacts DEF Running, Safe
<1>5. ASSUME NEW D \in SUBSET Dirs, NEW W, fs' = Remove(fs, D), Removed(D, W),
             \A u \in Running' : u \in Running /\ upload'[u] = upload[u]
      PROVE  hurt' = {} /\ NoNesting' /\ Alone'
  <2>1. \A e \in Dirs : /\ fs'[e].there => fs[e].there
                        /\ fs'[e].files # {} => fs[e].files # {}
                        /\ fs'[e].meta # {} => fs[e].meta # {}
    <3>1. Absent.there = FALSE /\ Absent.files = {} /\ Absent.meta = {}
      BY DEF Absent
    <3>2. /\ \A e \in Dirs : e \in Trees(D) => fs'[e] = Absent
          /\ \A e \in Dirs : e \notin Trees(D) =>
               fs'[e].files = fs[e].files /\ fs'[e].meta = fs[e].meta /\ fs'[e].there = fs[e].there
      BY <1>1, <1>5, RemoveFacts DEF Closed
    <3> QED
      BY <3>1, <3>2
  <2>2. hurt' = {}
    BY <1>3, <1>5 DEF Removed, Hurts
  <2> QED
    BY <1>3, <1>5, <2>1, <2>2, ShrinkKeeps
<1>6. CASE Sweep
  <2> DEFINE whole == {d \in Due : HasFiles(fs, d)}
  <2>1. Absent.there = FALSE /\ Absent.files = {} /\ Absent.meta = {}
    BY DEF Absent
  <2>2. /\ \A e \in Trees(whole) : fs'[e] = Absent
        /\ \A e \in Dirs \ Trees(whole) : /\ fs'[e].there = fs[e].there /\ fs'[e].meta = fs[e].meta
                                          /\ fs'[e].files \subseteq fs[e].files
    BY <1>1, <1>6, SweepFacts
  <2>3. \A e \in Dirs : /\ fs'[e].there => fs[e].there
                        /\ fs'[e].files # {} => fs[e].files # {}
                        /\ fs'[e].meta # {} => fs[e].meta # {}
    BY <2>1, <2>2
  <2>4. hurt' = {} /\ Running' = Running /\ upload' = upload
    BY <1>6 DEF Sweep, Running
  <2> QED
    BY <1>3, <2>3, <2>4, ShrinkKeeps
<1>7. CASE Tick
  <2>1. \A e \in Dirs : /\ fs'[e].there => fs[e].there
                        /\ fs'[e].files # {} => fs[e].files # {}
                        /\ fs'[e].meta # {} => fs[e].meta # {}
    <3> SUFFICES ASSUME NEW e \in Dirs
                 PROVE  /\ fs'[e].there => fs[e].there
                        /\ fs'[e].files # {} => fs[e].files # {}
                        /\ fs'[e].meta # {} => fs[e].meta # {}
      OBVIOUS
    <3>1. CASE fs[e].there /\ fs[e].age < MinAge
      <4>1. fs[e] \in Directory /\ fs'[e] = [fs[e] EXCEPT !.age = @ + 1]
        BY <1>1, <1>7, <3>1, ShapeFacts DEF Tick
      <4>2. fs'[e].files = fs[e].files /\ fs'[e].meta = fs[e].meta
        BY <4>1 DEF Directory
      <4> QED
        BY <3>1, <4>2
    <3>2. CASE ~(fs[e].there /\ fs[e].age < MinAge)
      BY <1>7, <3>2 DEF Tick
    <3> QED
      BY <3>1, <3>2
  <2>2. hurt' = {} /\ Running' = Running /\ upload' = upload
    BY <1>3, <1>7 DEF Tick, Running
  <2> QED
    BY <1>3, <2>1, <2>2, ShrinkKeeps
<1>8. ASSUME Killed, \A e \in Dirs : /\ fs'[e].there => fs[e].there
                                     /\ fs'[e].files # {} => fs[e].files # {}
                                     /\ fs'[e].meta # {} => fs[e].meta # {}
      PROVE  hurt' = {} /\ NoNesting' /\ Alone'
  <2>1. Running' = {} /\ hurt' = {}
    BY <1>8 DEF Killed, Running
  <2> QED
    BY <1>3, <1>8, <2>1, ShrinkKeeps
<1>9. CASE Crash
  BY <1>8, <1>9 DEF Crash
<1>10. ASSUME NEW d \in Dirs, CrashInRemove(d) PROVE hurt' = {} /\ NoNesting' /\ Alone'
  <2>1. \A e \in Dirs : /\ fs'[e].there => fs[e].there
                        /\ fs'[e].files # {} => fs[e].files # {}
                        /\ fs'[e].meta # {} => fs[e].meta # {}
    BY <1>1, <1>10, CutOffShrinks DEF CrashInRemove
  <2> QED
    BY <1>8, <1>10, <2>1 DEF CrashInRemove
<1>11. ASSUME NEW d \in Dirs, RemoveFails(d) PROVE hurt' = {} /\ NoNesting' /\ Alone'
  <2>1. hurt' = {}
    BY <1>3, <1>11 DEF RemoveFails, Hurts
  <2>2. \A v \in Running' : v \in Running /\ upload'[v] = upload[v]
    BY <1>11 DEF RemoveFails, Running
  <2>3. \A e \in Dirs : /\ fs'[e].there => fs[e].there
                        /\ fs'[e].files # {} => fs[e].files # {}
                        /\ fs'[e].meta # {} => fs[e].meta # {}
    BY <1>1, <1>11, CutOffShrinks DEF RemoveFails
  <2> QED
    BY <1>3, <2>1, <2>2, <2>3, ShrinkKeeps
<1>12. ASSUME NEW u \in Uploads, AbortFails(u) PROVE hurt' = {} /\ NoNesting' /\ Alone'
  <2>1. hurt' = {} /\ upload[u].dir \in Dirs /\ CutOff(upload[u].dir)
    BY <1>1, <1>3, <1>12, WriterFacts DEF AbortFails, Hurts
  <2>2. \A v \in Running' : v \in Running /\ upload'[v] = upload[v]
    BY <1>1, <1>12 DEF AbortFails, Done, Running, TypeOK
  <2>3. \A e \in Dirs : /\ fs'[e].there => fs[e].there
                        /\ fs'[e].files # {} => fs[e].files # {}
                        /\ fs'[e].meta # {} => fs[e].meta # {}
    BY <1>1, <2>1, CutOffShrinks
  <2> QED
    BY <1>3, <2>1, <2>2, <2>3, ShrinkKeeps
<1>13. ASSUME NEW u \in Uploads, Abort(u) PROVE hurt' = {} /\ NoNesting' /\ Alone'
  <2>1. upload[u].dir \in Dirs
    BY <1>1, <1>13, WriterFacts DEF Abort
  <2>2. \A v \in Running' : v \in Running /\ upload'[v] = upload[v]
    BY <1>1, <1>13 DEF Abort, Done, Running, TypeOK
  <2> QED
    BY <1>5, <1>13, <2>1, <2>2 DEF Abort
<1>14. ASSUME NEW d \in Dirs, Delete(d) PROVE hurt' = {} /\ NoNesting' /\ Alone'
  <2>1. \A v \in Running' : v \in Running /\ upload'[v] = upload[v]
    BY <1>14 DEF Delete, Running
  <2> QED
    BY <1>5, <1>14, <2>1 DEF Delete
<1>15. ASSUME NEW d \in Dirs, ~Conflict(fs, d)
       PROVE  /\ ~fs[d].there /\ \A e \in Under[d] : ~fs[e].there
              /\ \A a \in Above(d) : fs[a].meta = {}
              /\ \A u \in Running : upload[u].dir \notin Tree(d)
  <2>1. ~fs[d].there /\ \A e \in Under[d] : ~fs[e].there
    BY <1>1, <1>15, TreeFacts DEF Conflict, Closed
  <2>2. ASSUME NEW a \in Above(d) PROVE fs[a].meta = {}
    <3>1. a \in Dirs /\ ~LooksLikeBundle(fs, a)
      BY <1>15 DEF Conflict, Above
    <3> QED
      BY <1>1, <3>1, ShapeFacts DEF LooksLikeBundle
  <2>3. \A u \in Running : upload[u].dir \notin Tree(d)
    BY <1>4, <2>1 DEF Tree
  <2> QED
    BY <2>1, <2>2, <2>3
<1>16. ASSUME NEW d \in Dirs, NEW m \in Manifest, Send(d, m) PROVE hurt' = {} /\ NoNesting' /\ Alone'
  <2>1. ~Conflict(fs, d) /\ UNCHANGED <<upload, hurt>> /\ ~Crosses(d) /\ m \in SUBSET Names
    BY <1>16 DEF Send, Manifest
  <2>2. /\ \A e \in Dirs : fs'[e].there = (fs[e].there \/ e = d \/ e \in Above(d))
        /\ \A e \in Dirs \ {d} : fs'[e].meta = fs[e].meta /\ fs'[e].files = fs[e].files
    BY <1>1, <1>16, <2>1, WholeFacts DEF Send
  <2>3. \A e \in Under[d] : ~fs'[e].there
    BY <1>15, <2>1, <2>2, TreeFacts
  <2>4. \A e \in Dirs \ Tree(d) : /\ fs'[e].files = fs[e].files /\ fs'[e].meta = fs[e].meta
                                  /\ fs'[e].there => fs[e].there \/ e \in Above(d)
    BY <2>2 DEF Tree
  <2> QED
    BY <1>3, <1>15, <2>1, <2>3, <2>4, PlaceUntangled
<1>17. ASSUME NEW d \in Dirs, NEW m \in Manifest, RemoveAndSend(d, m)
       PROVE  hurt' = {} /\ NoNesting' /\ Alone'
  <2>1. /\ UNCHANGED upload /\ HurtBy({d}, {}) = {} /\ ~Crosses(d) /\ hurt' = {}
    BY <1>3, <1>17 DEF RemoveAndSend
  <2>2. \A u \in Running : upload[u].dir \notin Tree(d)
    BY <2>1, TreesOne DEF HurtBy
  <2>3. Running' = Running
    BY <2>1 DEF Running
  <2>4. /\ \A e \in Under[d] : fs'[e].there = FALSE
        /\ \A e \in Dirs \ Tree(d) : /\ fs'[e].files = fs[e].files /\ fs'[e].meta = fs[e].meta
                                     /\ fs'[e].there => fs[e].there \/ e \in Above(d)
        /\ \/ \A e \in Dirs : /\ fs'[e].there => fs[e].there
                              /\ fs'[e].files # {} => fs[e].files # {}
                              /\ fs'[e].meta # {} => fs[e].meta # {}
           \/ \A a \in Above(d) : fs[a].meta = {}
    BY <1>1, <1>17, RemoveAndSendFacts
  <2>5. CASE \A a \in Above(d) : fs[a].meta = {}
    BY <1>3, <2>1, <2>2, <2>4, <2>5, PlaceUntangled
  <2>6. CASE \A e \in Dirs : /\ fs'[e].there => fs[e].there
                             /\ fs'[e].files # {} => fs[e].files # {}
                             /\ fs'[e].meta # {} => fs[e].meta # {}
    BY <1>3, <2>1, <2>3, <2>6, ShrinkKeeps
  <2> QED
    BY <2>4, <2>5, <2>6
<1>18. ASSUME NEW u \in Uploads, NEW d \in Dirs, NEW m \in Manifest, Open(u, d, m)
       PROVE  hurt' = {} /\ NoNesting' /\ Alone'
  <2>1. ~Conflict(fs, d) /\ UNCHANGED hurt /\ ~Crosses(d) /\ upload[u] = Idle
        /\ upload' = [upload EXCEPT ![u] = [dir |-> d, manifest |-> m, written |-> {}]]
    BY <1>18 DEF Open
  <2>2. \A e \in Dirs : /\ fs'[e].files = fs[e].files /\ fs'[e].meta = fs[e].meta
                        /\ fs'[e].there = (fs[e].there \/ e = d \/ e \in Above(d))
    BY <1>1, <1>18, MakeDirFacts DEF Open
  <2>3. /\ \A a \in Above(d) : fs[a].files = {} /\ fs[a].meta = {}
        /\ \A v \in Running : upload[v].dir \notin Above(d) /\ upload[v].dir # d
    BY <1>4, <1>15, <2>1, TreeFacts DEF Crosses
  <2>4. /\ \A v \in Running' \ {u} : v \in Running /\ upload'[v] = upload[v]
        /\ upload'[u].dir = d
    BY <1>1, <2>1 DEF Running, TypeOK
  <2>5. NoNesting'
    <3> SUFFICES ASSUME NEW e \in Dirs, NEW a \in Dirs, a \in Above(e), fs'[e].there
                 PROVE  fs'[a].files = {} /\ fs'[a].meta = {}
      BY DEF NoNesting
    <3>1. CASE fs[e].there
      BY <1>3, <2>2, <3>1 DEF NoNesting
    <3>2. CASE e = d \/ e \in Above(d)
      <4>1. a \in Above(d)
        BY <3>2, TreeFacts
      <4> QED
        BY <2>2, <2>3, <4>1
    <3> QED
      BY <2>2, <3>1, <3>2
  <2>6. Alone'
    <3> SUFFICES ASSUME NEW v \in Running'
                 PROVE  /\ fs'[upload'[v].dir].meta = {}
                        /\ \A e \in Under[upload'[v].dir] : ~fs'[e].there
                        /\ \A w \in Running' \ {v} : upload'[w].dir # upload'[v].dir
      BY DEF Alone
    <3>1. CASE v = u
      <4>1. fs'[d].meta = {}
        BY <1>1, <1>15, <2>1, <2>2, ShapeFacts
      <4>2. \A e \in Under[d] : ~fs'[e].there
        BY <1>15, <2>1, <2>2, TreeFacts
      <4>3. \A w \in Running' \ {u} : upload'[w].dir # d
        BY <2>3, <2>4
      <4> QED
        BY <2>4, <3>1, <4>1, <4>2, <4>3
    <3>2. CASE v # u
      <4> DEFINE f == upload[v].dir
      <4>1. v \in Running /\ upload'[v] = upload[v] /\ f \in Dirs /\ f \notin Above(d) /\ f # d
        BY <1>4, <2>3, <2>4, <3>2
      <4>2. fs'[f].meta = {}
        BY <1>3, <2>2, <4>1 DEF Alone
      <4>3. ASSUME NEW e \in Under[f] PROVE ~fs'[e].there
        <5>1. e \in Dirs /\ ~fs[e].there
          BY <1>3, <4>1, TreeFacts DEF Alone
        <5>2. e # d /\ e \notin Above(d)
          BY <4>1, <5>1, TreeFacts
        <5> QED
          BY <2>2, <5>1, <5>2
      <4>4. \A w \in Running' \ {v} : upload'[w].dir # f
        BY <1>3, <2>4, <4>1 DEF Alone
      <4> QED
        BY <4>1, <4>2, <4>3, <4>4
    <3> QED
      BY <3>1, <3>2
  <2> QED
    BY <1>3, <2>1, <2>5, <2>6
<1>19. ASSUME NEW u \in Uploads, u \in Running, NEW d \in Dirs, d = upload[u].dir, UNCHANGED hurt,
              \A v \in Running' : v \in Running /\ upload'[v].dir = upload[v].dir,
              \A e \in Dirs : fs'[e].there => fs[e].there,
              \A e \in Dirs \ {d} : fs'[e].files = fs[e].files /\ fs'[e].meta = fs[e].meta,
              fs'[d].meta = fs[d].meta \/ u \notin Running'
       PROVE  hurt' = {} /\ NoNesting' /\ Alone'
  <2>1. \A e \in Under[d] : ~fs[e].there
    BY <1>3, <1>19 DEF Alone
  <2>2. NoNesting'
    <3> SUFFICES ASSUME NEW e \in Dirs, NEW a \in Dirs, a \in Above(e), fs'[e].there
                 PROVE  fs'[a].files = {} /\ fs'[a].meta = {}
      BY DEF NoNesting
    <3>1. a # d
      BY <1>19, <2>1, TreeFacts
    <3> QED
      BY <1>3, <1>19, <3>1 DEF NoNesting
  <2>3. Alone'
    <3> SUFFICES ASSUME NEW v \in Running'
                 PROVE  /\ fs'[upload[v].dir].meta = {}
                        /\ \A e \in Under[upload[v].dir] : ~fs'[e].there
                        /\ \A w \in Running \ {v} : upload[w].dir # upload[v].dir
      BY <1>19 DEF Alone
    <3>1. v \in Running /\ upload[v].dir \in Dirs /\ Under[upload[v].dir] \subseteq Dirs
      BY <1>4, <1>19, TreeFacts
    <3>2. fs'[upload[v].dir].meta = {}
      BY <1>3, <1>19, <3>1 DEF Alone
    <3> QED
      BY <1>3, <1>19, <3>1, <3>2 DEF Alone
  <2> QED
    BY <1>3, <1>19, <2>2, <2>3
<1>20. ASSUME NEW u \in Uploads, NEW n \in Names, Write(u, n) PROVE hurt' = {} /\ NoNesting' /\ Alone'
  <2> DEFINE d == upload[u].dir
  <2>1. u \in Running /\ d \in Dirs /\ fs[d].there /\ UNCHANGED hurt
    BY <1>4, <1>20 DEF Write, Running
  <2>2. \A e \in Dirs : /\ e # d => fs'[e].files = fs[e].files
                        /\ fs'[e].meta = fs[e].meta
                        /\ fs'[e].there = (fs[e].there \/ e = d \/ e \in Above(d))
    BY <1>1, <1>20, <2>1, AddFileFacts DEF Write
  <2>3. \A e \in Dirs : fs'[e].there => fs[e].there
    BY <1>1, <2>1, <2>2 DEF Closed
  <2>4. \A v \in Running' : v \in Running /\ upload'[v].dir = upload[v].dir
    <3>1. upload[u] \in Writer
      BY <1>1, <2>1, WriterFacts DEF Running
    <3> QED
      BY <1>1, <1>20, <2>1, <3>1 DEF Write, Running, TypeOK, Writer
  <2> QED
    BY <1>19, <2>1, <2>2, <2>3, <2>4
<1>21. ASSUME NEW u \in Uploads, Commit(u) PROVE hurt' = {} /\ NoNesting' /\ Alone'
  <2> DEFINE d == upload[u].dir
  <2>1. u \in Running /\ d \in Dirs /\ fs[d].there /\ UNCHANGED hurt
    BY <1>3, <1>4, <1>21 DEF Commit, Running
  <2>2. upload[u].manifest \in SUBSET Names
    BY <1>1, <2>1, WriterFacts DEF Running
  <2>3. fs'[d].there /\ \A e \in Dirs \ {d} : fs'[e] = fs[e]
    BY <1>1, <1>21, <2>1, <2>2, AddMetaFacts DEF Commit
  <2>4. u \notin Running' /\ \A v \in Running' : v \in Running /\ upload'[v].dir = upload[v].dir
    BY <1>1, <1>21 DEF Commit, Done, Running, TypeOK
  <2> QED
    BY <1>19, <2>1, <2>3, <2>4
<1>22. CASE UNCHANGED vars
  BY <1>3, <1>22 DEF vars, NoNesting, Alone, Running
<1>23. ASSUME NEW u \in Uploads, UploadStep(u) PROVE hurt' = {} /\ NoNesting' /\ Alone'
  BY <1>13, <1>18, <1>20, <1>21, <1>23, <1>12 DEF UploadStep
<1> QED
  BY <1>6, <1>7, <1>9, <1>10, <1>14, <1>16, <1>17, <1>22, <1>23, <1>11 DEF Next, Overwrite, Replace

\* Both invariants together.
LEMMA UntangledInvariant == Spec => [](WholeInv /\ Untangled)
<1>1. Init => Untangled
  BY DEF Init, Untangled, NoNesting, Alone, Running, Absent
<1> QED
  BY <1>1, WholeInvariant, UntangledStep, PTL DEF Spec

\* list_bundles reaches every committed bundle, as long as nobody got in the way
\* of an upload.
THEOREM BundlesListed == Spec => []CommittedListed
<1>1. WholeInv /\ Untangled => CommittedListed
  <2> SUFFICES ASSUME WholeInv, Untangled, ~crossed, NEW d \in Dirs, Committed(d)
               PROVE  Reached(fs, d)
    BY DEF CommittedListed
  <2>1. fs[d].there
    BY ShapeFacts DEF Committed, WholeInv, TypeOK, FS
  <2>2. \A a \in Above(d) : a \in Dirs /\ fs[a].files = {} /\ fs[a].meta = {}
    BY <2>1 DEF Untangled, NoNesting, Above
  <2> QED
    BY <2>1, <2>2 DEF Reached, HasFiles
<1> QED
  BY <1>1, UntangledInvariant, PTL

\* As long as nobody got in the way of an upload, neither the reaper nor a crash,
\* an upload, a new bundle or a request for other paths changes a committed
\* bundle, and an overwrite only the one at its own path.
THEOREM BundlesStay == Spec => CommittedStays
<1>1. WholeInv /\ Untangled /\ [Next]_vars =>
        [\A d \in Dirs : Committed(d) /\ fs'[d].meta # fs[d].meta /\ ~crossed' =>
            ~ \/ Sweep \/ Crash \/ \E u \in Uploads : UploadStep(u)
              \/ \E e \in Dirs, m \in Manifest :
                   \/ Send(e, m)
                   \/ e # d /\ Overwrite(e, m)
                   \/ d \notin Tree(e) /\ Replace(e, m)
              \/ \E e \in Dirs : d \notin Tree(e) /\ (Delete(e) \/ RemoveFails(e) \/ CrashInRemove(e))]_vars
  <2> SUFFICES ASSUME WholeInv, Untangled, [Next]_vars,
                      NEW d \in Dirs, Committed(d), fs'[d].meta # fs[d].meta, ~crossed'
               PROVE  ~ \/ Sweep \/ Crash \/ \E u \in Uploads : UploadStep(u)
                        \/ \E e \in Dirs, m \in Manifest :
                             \/ Send(e, m)
                             \/ e # d /\ Overwrite(e, m)
                             \/ d \notin Tree(e) /\ Replace(e, m)
                        \/ \E e \in Dirs :
                             d \notin Tree(e) /\ (Delete(e) \/ RemoveFails(e) \/ CrashInRemove(e))
    OBVIOUS
  <2>1. fs \in FS /\ TypeOK /\ Closed /\ fs[d].there
    BY ShapeFacts DEF WholeInv, TypeOK, FS, Committed
  <2>2. ASSUME ~crossed PROVE hurt = {} /\ NoNesting /\ Alone
    BY <2>2 DEF Untangled
  <2>3. ASSUME Sweep PROVE FALSE
    <3> DEFINE whole == {e \in Due : HasFiles(fs, e)}
    <3>1. /\ whole \in SUBSET Dirs
          /\ \A e \in Dirs \ Trees(whole) : fs'[e].meta = fs[e].meta
          /\ \A e \in Due : e \in Dirs /\ fs[e].meta = {} /\ fs[e].files # {}
      BY <2>1, <2>3, SweepFacts
    <3>2. PICK e \in whole : d \in Tree(e)
      BY <3>1, TreesClosed
    <3>3. e \in Dirs /\ fs[e].files # {} /\ d # e
      BY <3>1 DEF Committed
    <3>4. e \in Above(d)
      BY <3>2, <3>3, TreeFacts DEF Tree
    <3>5. ~crossed
      BY <2>3 DEF Sweep
    <3> QED
      BY <2>1, <2>2, <3>3, <3>4, <3>5 DEF NoNesting
  <2>4. ASSUME Crash PROVE FALSE
    BY <2>4 DEF Crash
  <2>5. ASSUME NEW u \in Uploads, UploadStep(u) PROVE FALSE
    <3>1. ASSUME upload[u] # Idle, ~crossed, d \in Tree(upload[u].dir) PROVE FALSE
      <4>1. u \in Running /\ upload[u].dir \in Dirs
        BY <2>1, <3>1, WriterFacts DEF Running
      <4> QED
        BY <2>1, <2>2, <3>1, <4>1 DEF Alone, Tree, Committed
    <3>2. ASSUME NEW e \in Dirs, NEW m \in Manifest, Open(u, e, m) PROVE FALSE
      BY <2>1, <3>2, MakeDirFacts DEF Open
    <3>3. ASSUME NEW n \in Names, Write(u, n) PROVE FALSE
      BY <2>1, <3>3, AddFileFacts, WriterFacts DEF Write
    <3>4. ASSUME Commit(u) PROVE FALSE
      <4>1. upload[u] # Idle /\ upload[u].dir \in Dirs /\ upload[u].manifest \in SUBSET Names /\ ~crossed
            /\ fs[upload[u].dir].there
        BY <2>1, <3>4, WriterFacts DEF Commit
      <4>2. \A e \in Dirs \ {upload[u].dir} : fs'[e] = fs[e]
        BY <2>1, <3>4, <4>1, AddMetaFacts DEF Commit
      <4> QED
        BY <3>1, <4>1, <4>2 DEF Tree
    <3>5. ASSUME Abort(u) PROVE FALSE
      <4>1. upload[u] # Idle /\ {upload[u].dir} \in SUBSET Dirs /\ ~crossed
            /\ fs' = Remove(fs, {upload[u].dir})
        BY <2>1, <3>5, WriterFacts DEF Abort, Removed, Hurts
      <4>2. \A e \in Dirs : e \notin Trees({upload[u].dir}) => fs'[e].meta = fs[e].meta
        BY <2>1, <4>1, RemoveFacts DEF Closed
      <4> QED
        BY <3>1, <4>1, <4>2, TreesOne
    <3>6. ASSUME AbortFails(u) PROVE FALSE
      <4>1. upload[u] # Idle /\ upload[u].dir \in Dirs /\ ~crossed /\ CutOff(upload[u].dir)
        BY <2>1, <3>6, WriterFacts DEF AbortFails, Hurts
      <4>2. \A e \in Dirs \ Tree(upload[u].dir) : fs'[e] = fs[e]
        BY <2>1, <4>1, CutOffFacts
      <4> QED
        BY <3>1, <4>1, <4>2
    <3> QED
      BY <2>5, <3>2, <3>3, <3>4, <3>5, <3>6 DEF UploadStep
  <2>6. ASSUME NEW e \in Dirs, NEW m \in Manifest, Send(e, m) PROVE FALSE
    <3>1. ~fs[e].there /\ m \in SUBSET Names
      BY <2>6 DEF Send, Conflict, Manifest
    <3>2. \A f \in Dirs \ {e} : fs'[f].meta = fs[f].meta
      BY <2>1, <2>6, <3>1, WholeFacts DEF Send
    <3> QED
      BY <2>1, <3>1, <3>2
  <2>7. ASSUME NEW e \in Dirs, NEW m \in Manifest, RemoveAndSend(e, m), d \notin Tree(e) PROVE FALSE
    BY <2>1, <2>7, RemoveAndSendFacts
  <2>8. ASSUME NEW e \in Dirs, NEW m \in Manifest, e # d, Overwrite(e, m) PROVE FALSE
    <3>1. RemoveAndSend(e, m) /\ fs[e].meta # {} /\ ~crossed
      BY <2>8 DEF Overwrite, Committed, RemoveAndSend
    <3>2. d \in Under[e]
      BY <2>7, <2>8, <3>1 DEF Tree
    <3>3. e \in Above(d)
      BY <3>2, TreeFacts
    <3> QED
      BY <2>1, <2>2, <3>1, <3>3 DEF NoNesting
  <2>9. ASSUME NEW e \in Dirs, d \notin Tree(e), Delete(e) \/ RemoveFails(e) \/ CrashInRemove(e)
        PROVE  FALSE
    <3>1. ASSUME Delete(e) PROVE FALSE
      <4>1. \A f \in Dirs : f \notin Trees({e}) => fs'[f].meta = fs[f].meta
        BY <2>1, <3>1, RemoveFacts DEF Closed, Delete
      <4> QED
        BY <2>9, <4>1, TreesOne
    <3>2. ASSUME CutOff(e) PROVE FALSE
      BY <2>1, <2>9, <3>2, CutOffFacts
    <3> QED
      BY <2>9, <3>1, <3>2 DEF RemoveFails, CrashInRemove
  <2> QED
    BY <2>3, <2>4, <2>5, <2>6, <2>7, <2>8, <2>9 DEF Replace
<1> QED
  BY <1>1, UntangledInvariant, PTL DEF Spec, CommittedStays
=============================================================================
