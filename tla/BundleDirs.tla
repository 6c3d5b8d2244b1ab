----------------------------- MODULE BundleDirs -----------------------------
(***************************************************************************)
(* The bundle directories of one namespace (store/, or one inbox), and     *)
(* everybody who makes, fills and removes them: streamed uploads, inline   *)
(* writes, overwrites, deletes and the passive reaper.                     *)
(*                                                                         *)
(* A bundle is a directory with a meta.json; before commit it is the same  *)
(* directory without one, and nothing but the upload's own memory tells it *)
(* from a leftover.  A streamed upload suspends between any two of its     *)
(* calls on FilesystemBundleWriter, so each call is an action; the inline  *)
(* writers never suspend and are one action.                               *)
(***************************************************************************)
EXTENDS Naturals, FiniteSets

CONSTANTS
    Dirs,      \* directory paths of the namespace
    Under,     \* Under[d]: the paths in Dirs that lie below d
    Names,     \* file names a manifest can list
    Nested,    \* those of them kept in a subdirectory of the bundle
    Uploads,   \* slots for streamed uploads in progress
    None,      \* no directory
    MinAge     \* passive_gc_min_age, in ticks

ASSUME TreeAssumption ==
    /\ Under \in [Dirs -> SUBSET Dirs]
    /\ \A d \in Dirs : d \notin Under[d]
    /\ \A d, e, f \in Dirs : e \in Under[d] /\ f \in Under[e] => f \in Under[d]
ASSUME BundleDirsAssumption == None \notin Dirs /\ MinAge \in Nat \ {0}
\* One nested name at most, so that the age of a bundle whose files are all
\* nested is the age of their subdirectory.
ASSUME NestedAssumption == Nested \subseteq Names /\ \A m, n \in Nested : m = n

VARIABLES
    fs,       \* path -> the directory there, or Absent
    upload,   \* slot -> the FilesystemBundleWriter of the upload, or Idle
    hurt,     \* history: running uploads whose directory somebody took away
    torn,     \* history: paths that a hurt upload committed, or whose removal
              \* was cut off by a crash or an error
    crossed   \* history: somebody got in the way of an upload (see Crosses)

vars == <<fs, upload, hurt, torn, crossed>>

Manifest == (SUBSET Names) \ {{}}

\* `meta` is the file set of meta.json, {} when there is none; `age` is the time
\* since the directory's mtime.
Directory == [there: {TRUE}, files: SUBSET Names, meta: SUBSET Names, age: 0..MinAge]
Absent == [there |-> FALSE, files |-> {}, meta |-> {}, age |-> 0]
Empty == [there |-> TRUE, files |-> {}, meta |-> {}, age |-> 0]

Writer == [dir: Dirs, manifest: Manifest, written: SUBSET Names]
Idle == [dir |-> None, manifest |-> {}, written |-> {}]

Above(d) == {a \in Dirs : d \in Under[a]}
Tree(d) == {d} \cup Under[d]
Trees(D) == UNION {Tree(d) : d \in D}
IsParent(a, d) == a \in Above(d) /\ \A b \in Above(d) \ {a} : a \in Under[b]
Running == {u \in Uploads : upload[u] # Idle}

Committed(d) == fs[d].meta # {}

Init == /\ fs = [d \in Dirs |-> Absent]
        /\ upload = [u \in Uploads |-> Idle]
        /\ hurt = {}
        /\ torn = {}
        /\ crossed = FALSE

-----------------------------------------------------------------------------
(* The filesystem: each operator gives the tree f after a call.  Adding or   *)
(* removing an entry renews the mtime of the directory that holds it.       *)

\* Files that os.walk reports for the directory itself.
HasFiles(f, d) == f[d].files \ Nested # {} \/ f[d].meta # {}

\* mkdir(parents=True, exist_ok=True)
MakeDir(f, d) ==
    LET new == {e \in Above(d) \cup {d} : ~f[e].there}
    IN [e \in Dirs |->
          IF e \in new THEN Empty
          ELSE IF \E n \in new : IsParent(e, n) THEN [f[e] EXCEPT !.age = 0]
          ELSE f[e]]

\* rmtree of every directory in D
Remove(f, D) ==
    [e \in Dirs |->
       IF e \in Trees(D) THEN Absent
       ELSE IF \E d \in D : f[d].there /\ IsParent(e, d) THEN [f[e] EXCEPT !.age = 0]
       ELSE f[e]]

\* rmtree of the subdirectory of nested files in every directory in D
RemoveNested(f, D) ==
    [e \in Dirs |-> IF e \in D THEN [f[e] EXCEPT !.files = @ \ Nested, !.age = 0] ELSE f[e]]

AddFile(f, d, n) ==
    LET g == MakeDir(f, d)
    IN [g EXCEPT ![d].files = @ \cup {n},
                 ![d].age = IF n \in g[d].files THEN @ ELSE 0]

AddMeta(f, d, m) == [f EXCEPT ![d].meta = m, ![d].age = 0]

\* _looks_like_bundle_dir: meta.json, or files and no subdirectory.
LooksLikeBundle(f, d) ==
    /\ f[d].there
    /\ \/ f[d].meta # {}
       \/ f[d].files # {} /\ f[d].files \cap Nested = {} /\ \A e \in Under[d] : ~f[e].there

\* Faulty variant of Conflict: the ancestors are not looked at.
ConflictSamePath(f, d) == f[d].there

\* open_bundle_write refuses: an ancestor is a bundle, or the path exists (with
\* a bundle inside it or not, which only changes the error's kind).
Conflict(f, d) == (\E a \in Above(d) : LooksLikeBundle(f, a)) \/ f[d].there

\* list_bundles does not descend below a directory that has files.
Reached(f, d) == f[d].there /\ \A a \in Above(d) : ~HasFiles(f, a)

\* A bundle directory without meta.json that list_bundles reports as an orphan,
\* or whose subdirectory of nested files it takes for one.
Orphan(f, d) == Reached(f, d) /\ f[d].files # {} /\ f[d].meta = {}

-----------------------------------------------------------------------------
(* History *)

\* The running uploads in the trees of D, apart from those in W.
HurtBy(D, W) == {u \in Running \ W : upload[u].dir \in Trees(D)}

\* A bundle at d is opened below an upload in progress, or below files that the
\* collision check did not recognise.
Crosses(d) == \E a \in Above(d) : fs[a].files # {} \/ \E u \in Running : upload[u].dir = a

\* Somebody removes from the trees of D, in a step of the uploads W (which end
\* with it); Removed if the trees are gone then.
Hurts(D, W) == /\ hurt' = (hurt \cup HurtBy(D, W)) \ W
               /\ crossed' = (crossed \/ HurtBy(D, W) # {})
Removed(D, W) == Hurts(D, W) /\ torn' = torn \ Trees(D)

\* An rmtree of d that does not get to its end: d is still there, of the
\* directories below it those in `left` are, and the files in `cut` and the
\* meta.json of those in `bare` are gone.
CutOff(d) ==
    /\ fs[d].there
    /\ \E left \in SUBSET {e \in Under[d] : fs[e].there} :
       \E bare \in SUBSET {e \in {d} \cup left : Committed(e)},
          cut \in SUBSET {x \in ({d} \cup left) \X Names : x[2] \in fs[x[1]].files} :
         LET Cut(e) == {n \in Names : <<e, n>> \in cut}
             Touched(e) == \/ Cut(e) # {} \/ e \in bare
                           \/ \E c \in Under[d] \ left : fs[c].there /\ IsParent(e, c)
         IN /\ \A e \in left : Above(e) \cap Under[d] \subseteq left
            /\ fs' = [e \in Dirs |->
                 IF e \in {d} \cup left
                 THEN [fs[e] EXCEPT !.files = @ \ Cut(e),
                                    !.meta = IF e \in bare THEN {} ELSE @,
                                    !.age = IF Touched(e) THEN 0 ELSE @]
                 ELSE IF e \in Under[d] THEN Absent ELSE fs[e]]
            /\ torn' = (torn \ (Under[d] \ left)) \cup {e \in {d} \cup left : Cut(e) # {}}

-----------------------------------------------------------------------------
(* A streamed upload *)

Open(u, d, m) == /\ upload[u] = Idle
                 /\ ~Conflict(fs, d)
                 /\ fs' = MakeDir(fs, d)
                 /\ upload' = [upload EXCEPT ![u] = [dir |-> d, manifest |-> m, written |-> {}]]
                 /\ crossed' = (crossed \/ Crosses(d))
                 /\ UNCHANGED <<hurt, torn>>

\* write_file makes the directory again if it is gone.
Write(u, n) == /\ upload[u] # Idle
               /\ n \in upload[u].manifest \ upload[u].written
               /\ fs' = AddFile(fs, upload[u].dir, n)
               /\ upload' = [upload EXCEPT ![u].written = @ \cup {n}]
               /\ UNCHANGED <<hurt, torn, crossed>>

\* Faulty variant of Done: the writer is only half reset.
DoneKeepsManifest(u) == upload' = [upload EXCEPT ![u].dir = None]

Done(u) == upload' = [upload EXCEPT ![u] = Idle]

\* Faulty variant of Commit: the files are not compared with the manifest.
CommitUnchecked(u) ==
    LET d == upload[u].dir IN
    /\ upload[u] # Idle
    /\ fs[d].there
    /\ fs' = AddMeta(fs, d, upload[u].manifest)
    /\ Done(u)
    /\ torn' = IF u \in hurt THEN torn \cup {d} ELSE torn \ {d}
    /\ hurt' = hurt \ {u}
    /\ UNCHANGED crossed

\* commit compares the manifest with the writer's memory, not with the disk.
\* If the directory is gone meta.json.tmp cannot be opened: see Abort.
Commit(u) ==
    LET d == upload[u].dir IN
    /\ upload[u] # Idle
    /\ upload[u].written = upload[u].manifest
    /\ fs[d].there
    /\ fs' = AddMeta(fs, d, upload[u].manifest)
    /\ Done(u)
    /\ torn' = IF u \in hurt THEN torn \cup {d} ELSE torn \ {d}
    /\ hurt' = hurt \ {u}
    /\ UNCHANGED crossed

\* Violation, lost client, failed commit: rmtree(ignore_errors=True), which may
\* leave something without saying so.
Abort(u) == /\ upload[u] # Idle
            /\ fs' = Remove(fs, {upload[u].dir})
            /\ Done(u)
            /\ Removed({upload[u].dir}, {u})
AbortFails(u) == /\ upload[u] # Idle
                 /\ CutOff(upload[u].dir)
                 /\ Done(u)
                 /\ Hurts({upload[u].dir}, {u})

-----------------------------------------------------------------------------
(* Inline writers and deletes *)

WholeBundle(f, d, m) == [MakeDir(f, d) EXCEPT ![d].files = m, ![d].meta = m]

\* send_inline, and a store put to a path without a bundle.
Send(d, m) == /\ ~Conflict(fs, d)
              /\ fs' = WholeBundle(fs, d, m)
              /\ crossed' = (crossed \/ Crosses(d))
              /\ UNCHANGED <<upload, hurt, torn>>

\* The bundle is removed; the new one is written unless that still conflicts.
RemoveAndSend(d, m) ==
    LET g == Remove(fs, {d})
    IN /\ fs' = IF Conflict(g, d) THEN g ELSE WholeBundle(g, d, m)
       /\ hurt' = hurt \cup HurtBy({d}, {})
       /\ torn' = torn \ Tree(d)
       /\ crossed' = (crossed \/ HurtBy({d}, {}) # {} \/ Crosses(d))
       /\ UNCHANGED upload

\* PUT /files: what is there is removed only if it has a meta.json.
Overwrite(d, m) == Committed(d) /\ RemoveAndSend(d, m)

\* The MCP put and the two broadcasts: whatever is there is removed.
Replace(d, m) == fs[d].there /\ RemoveAndSend(d, m)

\* DELETE of a store or inbox path, which need not be a bundle.
Delete(d) == /\ fs[d].there
             /\ fs' = Remove(fs, {d})
             /\ Removed({d}, {})
             /\ UNCHANGED upload

\* The rmtree of a delete, of an overwrite or of the reaper raises: the request
\* goes no further, the reaper goes on.
RemoveFails(d) == CutOff(d) /\ Hurts({d}, {}) /\ UNCHANGED upload

-----------------------------------------------------------------------------
(* The reaper, time, and a crash of the process *)

\* Faulty variants of Due: meta.json is not looked at; orphans are not listed.
DueAlsoCommitted == {d \in Dirs : Reached(fs, d) /\ HasFiles(fs, d) /\ fs[d].age >= MinAge}
DueListedOnly == {d \in Dirs : Orphan(fs, d) /\ Committed(d)}

Due == {d \in Dirs : Orphan(fs, d) /\ fs[d].age >= MinAge}

\* gc.sweep, one pass.  Of an orphan with nested files only, list_bundles
\* reports the subdirectory.
Sweep == LET whole == {d \in Due : HasFiles(fs, d)} IN
         /\ Due # {}
         /\ fs' = RemoveNested(Remove(fs, whole), Due \ whole)
         /\ hurt' = hurt \cup HurtBy(whole, {})
                         \cup {u \in Running : upload[u].dir \in Due}
         /\ torn' = torn \ Trees(whole)
         /\ crossed' = (crossed \/ hurt' # {})
         /\ UNCHANGED upload

Tick == /\ fs' = [d \in Dirs |-> IF fs[d].there /\ fs[d].age < MinAge
                                 THEN [fs[d] EXCEPT !.age = @ + 1] ELSE fs[d]]
        /\ UNCHANGED <<upload, hurt, torn, crossed>>

Killed == upload' = [u \in Uploads |-> Idle] /\ hurt' = {} /\ UNCHANGED crossed

\* Uploads die with the process.  A crash inside write_file, commit or an
\* inline write leaves what the upload's steps up to there leave.
Crash == Running # {} /\ Killed /\ UNCHANGED <<fs, torn>>

\* A crash inside an rmtree of d, whoever asked for it.
CrashInRemove(d) == CutOff(d) /\ Killed

UploadStep(u) == \/ \E d \in Dirs, m \in Manifest : Open(u, d, m)
                 \/ \E n \in Names : Write(u, n)
                 \/ Commit(u)
                 \/ Abort(u) \/ AbortFails(u)

Next == \/ Sweep \/ Tick \/ Crash
        \/ \E u \in Uploads : UploadStep(u)
        \/ \E d \in Dirs, m \in Manifest : Send(d, m) \/ Overwrite(d, m) \/ Replace(d, m)
        \/ \E d \in Dirs : Delete(d) \/ RemoveFails(d) \/ CrashInRemove(d)

Spec == Init /\ [][Next]_vars

\* Time goes on and the reaper keeps running.
FairSpec == Spec /\ WF_vars(Tick) /\ WF_vars(Sweep)

-----------------------------------------------------------------------------
(* Properties *)

\* The shape of the directory tree and of the writers' memory.
TypeOK == /\ fs \in [Dirs -> Directory \cup {Absent}]
          /\ upload \in [Uploads -> Writer \cup {Idle}]
          /\ hurt \subseteq Running
          /\ torn \subseteq Dirs
          /\ crossed \in BOOLEAN

\* A bundle is a unit: whoever can see its meta.json finds every file it names,
\* unless the upload that committed it had its directory removed under it, or a
\* crash or an error cut off its removal (FilesystemBundleWriter.commit).
CommittedWhole == \A d \in Dirs \ torn : fs[d].meta \subseteq fs[d].files

\* A committed bundle is visible to list_bundles: no directory above it has files
\* of its own (the shadow_child and shadow_parent checks), as long as nobody got
\* in the way of an upload.
CommittedListed == crossed \/ \A d \in Dirs : Committed(d) => Reached(fs, d)

\* As long as nobody got in the way of an upload, a committed bundle is taken away
\* or changed only where it lies in what somebody asked to delete or to replace
\* (done, or cut off by an error or a crash), and a PUT /files takes away no
\* bundle but the one at its own path.  Nothing done to other paths, not the
\* reaper, no other crash, no new bundle and no upload, failed or not, does it.
CommittedStays ==
    [][\A d \in Dirs :
         Committed(d) /\ fs'[d].meta # fs[d].meta /\ ~crossed' =>
            ~ \/ Sweep \/ Crash \/ \E u \in Uploads : UploadStep(u)
              \/ \E e \in Dirs, m \in Manifest :
                   \/ Send(e, m)
                   \/ e # d /\ Overwrite(e, m)
                   \/ d \notin Tree(e) /\ Replace(e, m)
              \/ \E e \in Dirs : d \notin Tree(e) /\ (Delete(e) \/ RemoveFails(e) \/ CrashInRemove(e))]_vars

\* Files left by a dead upload or a cut-off removal are removed in the end, as
\* long as nobody got in the way of an upload.
OrphanSwept == \A d \in Dirs :
    (Orphan(fs, d) /\ \A u \in Running : upload[u].dir # d) ~> (~Orphan(fs, d) \/ crossed)

\* The reaper never takes a committed bundle away.
ReaperSparesCommitted ==
    [][\A d \in Dirs : Sweep /\ Committed(d) => fs'[d].meta = fs[d].meta]_vars
=============================================================================
