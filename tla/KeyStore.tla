------------------------------ MODULE KeyStore ------------------------------
(***************************************************************************)
(* FileKeyStore: agent keys in memory, keys.json on disk.  Every operation *)
(* changes the memory first and then rewrites the whole file; the write    *)
(* can fail, fail half way, or be cut off by the end of the process.       *)
(* Nothing here suspends: an operation is one action, with the outcome of  *)
(* its _save as a parameter.                                               *)
(***************************************************************************)
EXTENDS Naturals, FiniteSets

CONSTANTS
    Labels,    \* labels of agent keys
    Keys,      \* pool of generated keys; a key is never generated twice
    None,      \* no label
    Torn       \* a keys.json that is not valid JSON

ASSUME KeyStoreAssumption == None \notin Labels

VARIABLES
    up,        \* the process is running
    mem,       \* _setup_done and _keys
    disk,      \* the same in keys.json, or Torn
    issued,    \* history: keys whose creation was answered 201
    asked,     \* history: keys that a revoke or a rotate has named
    gone,      \* history: keys whose revocation was answered with success
    setups     \* history: number of setups answered 201

vars == <<up, mem, disk, issued, asked, gone, setups>>

\* label[k] = None: no record of k.
Store == [setup: BOOLEAN, label: [Keys -> Labels \cup {None}], active: SUBSET Keys]
NoKeys == [setup |-> FALSE, label |-> [k \in Keys |-> None], active |-> {}]

Active(m, l) == {k \in m.active : m.label[k] = l}
Unused == {k \in Keys : /\ mem.label[k] = None
                        /\ k \notin issued \cup asked
                        /\ disk # Torn => disk.label[k] = None}

Init == /\ up = TRUE /\ mem = NoKeys /\ disk = NoKeys
        /\ issued = {} /\ asked = {} /\ gone = {} /\ setups = 0

-----------------------------------------------------------------------------
\* open(..., "w") may fail, or truncate the file and then fail.
Outcomes == {"saved", "failed", "torn"}

\* Faulty variant of Persist: the file is not rewritten.
PersistNothing(m, o) == mem' = m /\ UNCHANGED <<disk, up>>

Persist(m, o) == /\ mem' = m
                 /\ disk' = IF o = "saved" THEN m ELSE IF o = "torn" THEN Torn ELSE disk
                 /\ UNCHANGED up

\* m with a new active key for l
With(m, l, k) == [m EXCEPT !.label[k] = l, !.active = @ \cup {k}]

\* m with k revoked; its record stays
Without(m, k) == [m EXCEPT !.active = @ \ {k}]

\* m with the active key k of l replaced by n
Rotated(m, l, k, n) == With(Without(m, k), l, n)

\* Faulty variant of Create: the label is not looked up.
CreateAnyway(l, k, o) ==
    /\ up /\ k \in Unused
    /\ Persist(With(mem, l, k), o)
    /\ issued' = IF o = "saved" THEN issued \cup {k} ELSE issued
    /\ UNCHANGED <<asked, gone, setups>>

Create(l, k, o) ==
    /\ up /\ k \in Unused
    /\ Active(mem, l) = {}
    /\ Persist(With(mem, l, k), o)
    /\ issued' = IF o = "saved" THEN issued \cup {k} ELSE issued
    /\ UNCHANGED <<asked, gone, setups>>

\* Faulty variant of Setup: the flag is not set.
SetupForgets(l, k, o) ==
    /\ up /\ k \in Unused
    /\ ~mem.setup
    /\ Active(mem, l) = {}
    /\ Persist(With(mem, l, k), o)
    /\ issued' = IF o = "saved" THEN issued \cup {k} ELSE issued
    /\ setups' = IF o = "saved" THEN setups + 1 ELSE setups
    /\ UNCHANGED <<asked, gone>>

Setup(l, k, o) ==
    /\ up /\ k \in Unused
    /\ ~mem.setup
    /\ Active(mem, l) = {}
    /\ Persist([With(mem, l, k) EXCEPT !.setup = TRUE], o)
    /\ issued' = IF o = "saved" THEN issued \cup {k} ELSE issued
    /\ setups' = IF o = "saved" THEN setups + 1 ELSE setups
    /\ UNCHANGED <<asked, gone>>

\* The flag is set before create_key refuses the label; nothing is saved.
SetupRefused(l) ==
    /\ up /\ ~mem.setup
    /\ Active(mem, l) # {}
    /\ mem' = [mem EXCEPT !.setup = TRUE]
    /\ UNCHANGED <<up, disk, issued, asked, gone, setups>>

\* Faulty variant of Revoke: success is answered without a save.
RevokeUnsaved(l, o) ==
    \E k \in Active(mem, l) :
        /\ up
        /\ mem' = Without(mem, k)
        /\ asked' = asked \cup {k}
        /\ gone' = gone \cup {k}
        /\ UNCHANGED <<up, disk, issued, setups>>

Revoke(l, o) ==
    \E k \in Active(mem, l) :
        /\ up
        /\ Persist(Without(mem, k), o)
        /\ asked' = asked \cup {k}
        /\ gone' = IF o = "saved" THEN gone \cup {k} ELSE gone
        /\ UNCHANGED <<issued, setups>>

\* One save for both halves: the old key goes and the new one comes together.
Rotate(l, n, o) ==
    \E k \in Active(mem, l) :
        /\ up /\ n \in Unused
        /\ Persist(Rotated(mem, l, k, n), o)
        /\ asked' = asked \cup {k}
        /\ issued' = IF o = "saved" THEN issued \cup {n} ELSE issued
        /\ gone' = IF o = "saved" THEN gone \cup {k} ELSE gone
        /\ UNCHANGED setups

\* The process ends, between operations or inside the write of keys.json.
Stop == /\ up /\ up' = FALSE
        /\ disk' \in {disk, Torn}
        /\ UNCHANGED <<mem, issued, asked, gone, setups>>

\* Faulty variant of Start: unreadable JSON is not noticed.
StartAnyway == /\ ~up /\ up' = TRUE
               /\ mem' = disk
               /\ UNCHANGED <<disk, issued, asked, gone, setups>>

\* _load raises on a torn file: the process does not come up.
Start == /\ ~up /\ disk # Torn
         /\ up' = TRUE
         /\ mem' = disk
         /\ UNCHANGED <<disk, issued, asked, gone, setups>>

Next == \/ \E l \in Labels, k \in Keys, o \in Outcomes :
              Create(l, k, o) \/ Setup(l, k, o) \/ Rotate(l, k, o)
        \/ \E l \in Labels, o \in Outcomes : Revoke(l, o)
        \/ \E l \in Labels : SetupRefused(l)
        \/ Stop \/ Start

Spec == Init /\ [][Next]_vars

-----------------------------------------------------------------------------
(* Properties *)

\* The shape of the memory and of the file.
TypeOK == /\ up \in BOOLEAN
          /\ mem \in Store
          /\ disk \in Store \cup {Torn}
          /\ issued \subseteq Keys /\ asked \subseteq Keys /\ gone \subseteq Keys
          /\ setups \in Nat

\* A label names at most one working key, in memory and after any restart
\* (create_key, rotate_key), also when a save in between has failed.
OneKeyEach(m) == \A j, k \in m.active : m.label[j] = m.label[k] => j = k
OneKeyPerLabel == (up => OneKeyEach(mem)) /\ (disk # Torn => OneKeyEach(disk))

\* A key whose revocation or rotation was confirmed never works again: neither
\* now nor after a restart, whatever saves fail later.
RevokedStaysOut == /\ up => gone \cap mem.active = {}
                   /\ disk # Torn => gone \cap disk.active = {}

\* A key that was handed out and that nobody asked to revoke works whenever the
\* server runs.
IssuedKeysWork == up => issued \ asked \subseteq mem.active

\* POST /setup succeeds at most once in the life of a key file.
SetupOnce == setups <= 1
=============================================================================
